---- MODULE Spec2Model ----
(***************************************************************************)
(* Model of the Blender asset scripts of game-asset-blender-scripts:       *)
(*   - track combining  (mixamo-add-animations-to-character.py,            *)
(*                       mixamo-combine-animations.py)                     *)
(*   - image / material deduplication (synty-scifi-city.py,                *)
(*                       mixamo-add-animations-to-character.py)            *)
(*   - retargeting      (synty-animation-skeleton-to-tpose-testing.py)     *)
(*   - batch drivers, texture fixing, bone comparison, T-pose test, root   *)
(*     object, alias rewriting (the same scripts, fbx-compare-bones.py)    *)
(* Each part has its own specification (SpecTracks, SpecMaterials, ...);   *)
(* the variables of the other parts stay idle.                             *)
(***************************************************************************)
EXTENDS Integers, Sequences, FiniteSets, TLC

VARIABLES
    \* ---- track combining ----
    path,        \* "character" (add animations to a character) or "combine"
    charBones,   \* bone names of the target armature
    charScale,   \* object scale of the target armature
    tracks,      \* target.animation_data.nla_tracks, in order
    pc,          \* "run" | "failed" (an exception left the function) | "done"
    result,      \* outcome of the last loop iteration
    clip,        \* the animation armature of the last loop iteration
    actionName,  \* name of that armature's action after the iteration
    nClips,      \* number of loop iterations so far
    seenArm,     \* an armature was among the iterated objects
    \* ---- material deduplication ----
    mats,        \* bpy.data.materials, in name order
    objs,        \* bpy.data.objects with their material slots
    mats0,       \* the materials when deduplicate_materials was entered
    objs0,       \* the objects when deduplicate_materials was entered
    pcM,         \* "start" | "done"
    \* ---- image deduplication ----
    flow,        \* "synty" (deduplicate_images) | "mixamo" (normalize_and_deduplicate_images)
    imgs,        \* bpy.data.images, in name order
    imats,       \* the node trees of bpy.data.materials: the image of every node
    imgs0,       \* the images when the deduplication pass was entered
    imats0,      \* the node trees when the deduplication pass was entered
    pcI,         \* "start" | "done" | "failed"
    errI,        \* the exception that ended the function, or "none"
    \* ---- retargeting ----
    source_arm,    \* the armature that carries the animation
    target_arm,    \* the armature the animation is baked onto
    frame_start,   \* first frame of the range
    frame_end,     \* last frame of the range
    frame,         \* the frame of the scene (the loop variable)
    common_bones,  \* names of the source bones the target has too
    deltas,        \* per bone, the pose relative to the source rest at frame_start
    keyframes,     \* per bone and frame, the samples keyframe_insert wrote
    pcR,           \* "start" | "loop" | "done"
    source_arm2,   \* the source of a second run: source_arm with another pose at frame_start
    deltas2,       \* deltas of the second run
    keyframes2,    \* keyframes of the second run
    \* ---- batch drivers ----
    driver,        \* "mixamo" (main) | "synty" (process_files)
    units,         \* the input files, in the sorted order of the list
    idx,           \* place of the file the loop is at
    scene,         \* the datablocks of the Blender scene, each with the unit that made it
    exported,      \* the units that were exported, in order
    skipped_files, \* skipped_files of process_files
    summary,       \* the list printed when the loop has ended
    errB,          \* the exception that left the driver, or "none"
    pcB,           \* "loop" | "import" | "process" | "failed" | "done"
    steps,         \* the steps the driver has made, each with the place of its unit
    \* ---- fixing the texture references of a mesh ----
    fx_nodes,      \* the nodes of the node trees of the materials of the mesh
    fx_nodes0,     \* the nodes when fix_missing_mesh_materials was entered
    textures,      \* names of the files in <output_path>/textures
    fx_exported,   \* the unit of the mesh was exported
    errF,          \* the exception that left the function, or "none"
    pcF,           \* "start" | "done" | "failed"
    \* ---- bone comparison ----
    bones_fbx_a,       \* rest orientation of every bone of the first armature
    bones_fbx_b,       \* rest orientation of every bone of the second armature
    missing_in_fbx_a,  \* names only the second armature has
    missing_in_fbx_b,  \* names only the first armature has
    printed,           \* the rotation differences that were printed
    pcC,               \* "start" | "done"
    \* ---- T-pose test ----
    char_collection,      \* the objects of the collection
    deviation_threshold,  \* degrees
    fix,                  \* the flag of the same name
    any_deviation,        \* the local of the same name
    tp_result,            \* what is_in_t_pose returned, or "none"
    pcT,                  \* "start" | "done"
    \* ---- root object of an imported unit ----
    root_fn,           \* "get_root_object" | "get_character"
    imported_objects,  \* the parent of every object the import made (NoParent for none)
    root_marked,       \* the objects get_character tagged and moved to the collection
    root_result,       \* "none" | "returned" | "raise"
    pcO,               \* "start" | "done"
    \* ---- alias rewriting of a texture path ----
    al_path,   \* img_path of a node whose file is missing
    al_order,  \* the order in which the table is iterated: places of FILE_REPLACEMENTS
    al_out,    \* img_path after the loop over the table
    al_prev,   \* img_path before the last rewriting
    pcA        \* "start" | "once" | "twice"

trackVars ==
    <<path, charBones, charScale, tracks, pc, result, clip, actionName, nClips, seenArm>>

matVars == <<mats, objs, mats0, objs0, pcM>>

imgVars == <<flow, imgs, imats, imgs0, imats0, pcI, errI>>

retVars ==
    <<source_arm, target_arm, frame_start, frame_end, frame, common_bones, deltas,
      keyframes, pcR, source_arm2, deltas2, keyframes2>>

batchVars ==
    <<driver, units, idx, scene, exported, skipped_files, summary, errB, pcB, steps>>

fixVars == <<fx_nodes, fx_nodes0, textures, fx_exported, errF, pcF>>

cmpVars ==
    <<bones_fbx_a, bones_fbx_b, missing_in_fbx_a, missing_in_fbx_b, printed, pcC>>

tposeVars ==
    <<char_collection, deviation_threshold, fix, any_deviation, tp_result, pcT>>

rootVars == <<root_fn, imported_objects, root_marked, root_result, pcO>>

aliasVars == <<al_path, al_order, al_out, al_prev, pcA>>

vars ==
    <<trackVars, matVars, imgVars, retVars, batchVars, fixVars, cmpVars, tposeVars,
      rootVars,
      aliasVars>>

(***************************************************************************)
(* Strings are sequences of one-character strings, so that str.lower() and *)
(* str.title() are computed and not assumed.                               *)
(***************************************************************************)
LetterPairs ==
    { <<"a", "A">>, <<"c", "C">>, <<"e", "E">>, <<"i", "I">>, <<"k", "K">>,
      <<"l", "L">>, <<"m", "M">>, <<"n", "N">>, <<"o", "O">>, <<"r", "R">>,
      <<"s", "S">>, <<"t", "T">>, <<"w", "W">>, <<"y", "Y">> }

IsLowerCh(c) == \E p \in LetterPairs : p[1] = c
IsUpperCh(c) == \E p \in LetterPairs : p[2] = c
IsLetter(c)  == IsLowerCh(c) \/ IsUpperCh(c)
ToLowerCh(c) == IF IsUpperCh(c) THEN (CHOOSE p \in LetterPairs : p[2] = c)[1] ELSE c
ToUpperCh(c) == IF IsLowerCh(c) THEN (CHOOSE p \in LetterPairs : p[1] = c)[2] ELSE c

\* str.lower()
Lower(s) == [i \in 1..Len(s) |-> ToLowerCh(s[i])]

\* str.title(): the first letter of every run of letters is upper-cased, the
\* other letters of the run are lower-cased, non-letters are kept.
Title(s) ==
    [i \in 1..Len(s) |->
        IF ~IsLetter(s[i]) THEN s[i]
        ELSE IF i > 1 /\ IsLetter(s[i-1]) THEN ToLowerCh(s[i])
        ELSE ToUpperCh(s[i])]

ReservedFolder == <<"a", "n", "i", "m", "a", "t", "i", "o", "n", "s">>
NoneLiteral    == <<"N", "o", "n", "e">>
Separator      == <<" ", "-", " ">>

\* anim_name, from the folder and the file name (without extension) of the clip
AnimName(folder, file) ==
    IF folder = ReservedFolder
    THEN NoneLiteral \o Separator \o Title(file)
    ELSE folder \o Separator \o Title(file)

(***************************************************************************)
(* Inputs of the track combining.                                          *)
(***************************************************************************)
MaxClips == 3

BoneNames  == {"Hips", "Spine"}
BoneSets   == (SUBSET BoneNames) \ {{}}
Scales     == {1, 100}
Folders    == { ReservedFolder, <<"w">>, <<"W">> }
Files      == { <<"r", "r", "_", "r">>, <<"R", "R", "_", "R">> }
\* action.frame_range is a pair of floats; they are kept in half frames
\* (2 is 1.0, 3 is 1.5), so that int() is a real truncation.
FrameRanges == { <<2, 4>>, <<2, 3>>, <<4, 4>>, <<4, 2>> }
IntOf(h) == h \div 2

OrigActionName == <<"m">>

\* an imported object that is no armature (its other fields are never read)
NoClip ==
    [type |-> "MESH", bones |-> {"Hips"}, scale |-> 1, folder |-> <<"w">>,
     file |-> <<"r", "r", "_", "r">>, hasAction |-> FALSE, frame_range |-> <<2, 4>>]

\* The imported objects of the animations collection. Fields that the code
\* cannot read for an object (the name and frame range of an armature without
\* action, or of one whose scale differs) are not varied.
Clips ==
    {NoClip}
    \cup { [NoClip EXCEPT !.type = "ARMATURE", !.bones = b, !.scale = s] :
             b \in BoneSets, s \in Scales }
    \cup { [NoClip EXCEPT !.type = "ARMATURE", !.bones = b, !.scale = 100,
                          !.hasAction = TRUE] : b \in BoneSets }
    \cup [type : {"ARMATURE"}, bones : BoneSets, scale : {1}, folder : Folders,
          file : Files, hasAction : {TRUE}, frame_range : FrameRanges]

\* a strip as track.strips.new(name, start=0, action) leaves it: the script
\* has not yet assigned the action frames (-1) nor the extrapolation
NewStrip(name, action) ==
    [name |-> name, start |-> 0, action |-> action,
     action_frame_start |-> -1, action_frame_end |-> -1, extrapolation |-> "HOLD"]

SetStrip(strip, fr) ==
    [strip EXCEPT !.action_frame_start = IntOf(fr[1]),
                  !.action_frame_end = IntOf(fr[2]),
                  !.extrapolation = "NOTHING"]

NewTrack(name, strip) == [name |-> name, strips |-> <<strip>>]

\* any(t.name.lower() == anim_name.lower() for t in nla_tracks)
HasTrackNamed(trs, name) ==
    \E i \in 1..Len(trs) : Lower(trs[i].name) = Lower(name)


\* bones_match of mixamo-add-animations-to-character.py: prints, never raises
bones_match(bones_char, bones_anim) == bones_char = bones_anim

\* bones_match of mixamo-combine-animations.py: raises when the animation has a
\* bone the target lacks, otherwise returns the equality of the two sets
bones_match_combine(bones_char, bones_anim) ==
    IF bones_anim \ bones_char # {} THEN "raise"
    ELSE IF bones_char = bones_anim THEN "true" ELSE "false"

\* action.users after the strip was created: the animation armature and the
\* new strip both use the action
ActionUsers(c) == 2

InitTracks ==
    /\ path \in {"character", "combine"}
    /\ charBones \in BoneSets
    /\ charScale = 1
    /\ tracks = <<>>
    /\ pc = "run"
    /\ result = "none"
    /\ clip = NoClip
    /\ actionName = OrigActionName
    /\ nClips = 0
    /\ seenArm = FALSE
    \* the material deduplication is idle
    /\ mats = <<>>
    /\ objs = <<>>
    /\ mats0 = <<>>
    /\ objs0 = <<>>
    /\ pcM = "idle"
    \* the image deduplication is idle
    /\ flow = "idle"
    /\ imgs = <<>>
    /\ imats = <<>>
    /\ imgs0 = <<>>
    /\ imats0 = <<>>
    /\ pcI = "idle"
    /\ errI = "none"
    \* the retargeting is idle
    /\ source_arm = [bones |-> {}]
    /\ target_arm = [bones |-> {}]
    /\ frame_start = 0
    /\ frame_end = 0
    /\ frame = 0
    /\ common_bones = {}
    /\ deltas = <<>>
    /\ keyframes = <<>>
    /\ pcR = "idle"
    /\ source_arm2 = [bones |-> {}]
    /\ deltas2 = <<>>
    /\ keyframes2 = <<>>
    \* the batch driver is idle
    /\ driver = "idle"
    /\ units = <<>>
    /\ idx = 0
    /\ scene = {}
    /\ exported = <<>>
    /\ skipped_files = <<>>
    /\ summary = <<>>
    /\ errB = "none"
    /\ pcB = "idle"
    /\ steps = <<>>
    \* the fixing of texture references is idle
    /\ fx_nodes = <<>>
    /\ fx_nodes0 = <<>>
    /\ textures = {}
    /\ fx_exported = FALSE
    /\ errF = "none"
    /\ pcF = "idle"
    \* the bone comparison is idle
    /\ bones_fbx_a = <<>>
    /\ bones_fbx_b = <<>>
    /\ missing_in_fbx_a = {}
    /\ missing_in_fbx_b = {}
    /\ printed = {}
    /\ pcC = "idle"
    \* the T-pose test is idle
    /\ char_collection = <<>>
    /\ deviation_threshold = 0
    /\ fix = FALSE
    /\ any_deviation = FALSE
    /\ tp_result = "none"
    /\ pcT = "idle"
    \* no unit is being imported
    /\ root_fn = "idle"
    /\ imported_objects = <<>>
    /\ root_marked = {}
    /\ root_result = "none"
    /\ pcO = "idle"
    \* no path is being rewritten
    /\ al_path = <<>>
    /\ al_order = <<>>
    /\ al_out = <<>>
    /\ al_prev = <<>>
    /\ pcA = "idle"

\* One iteration of "for anim_arm in animations.objects" in
\* combine_characters_and_animations.
AddClipCharacter(c) ==
    /\ path = "character"
    /\ pc = "run"
    /\ nClips < MaxClips
    /\ nClips' = nClips + 1
    /\ clip' = c
    /\ seenArm' = (seenArm \/ c.type = "ARMATURE")
    /\ UNCHANGED <<path, charBones, charScale, matVars, imgVars, retVars, batchVars, fixVars, cmpVars, tposeVars, rootVars, aliasVars>>
    /\ LET anim_name == AnimName(c.folder, c.file)
           created   == Append(tracks, NewTrack(anim_name, NewStrip(anim_name, anim_name)))
           finished  == Append(tracks,
                               NewTrack(anim_name,
                                        SetStrip(NewStrip(anim_name, anim_name), c.frame_range)))
       IN  IF c.type # "ARMATURE"
           THEN /\ result' = "skipped"
                /\ pc' = pc
                /\ tracks' = tracks
                /\ actionName' = OrigActionName
           ELSE IF ~bones_match(charBones, c.bones)
           THEN /\ result' = "SkeletonMismatch"
                /\ pc' = "failed"
                /\ tracks' = tracks
                /\ actionName' = OrigActionName
           ELSE IF charScale # c.scale
           THEN /\ result' = "ScaleMismatch"
                /\ pc' = "failed"
                /\ tracks' = tracks
                /\ actionName' = OrigActionName
           ELSE IF ~c.hasAction
           THEN /\ result' = "noaction"
                /\ pc' = pc
                /\ tracks' = tracks
                /\ actionName' = OrigActionName
           ELSE IF HasTrackNamed(tracks, anim_name)
           THEN /\ result' = "DuplicateTrackName"
                /\ pc' = "failed"
                /\ tracks' = tracks
                /\ actionName' = OrigActionName
           ELSE IF ActionUsers(c) = 0
           THEN /\ result' = "NoUsers"
                /\ pc' = "failed"
                /\ tracks' = created
                /\ actionName' = anim_name
           ELSE IF c.frame_range[1] >= c.frame_range[2]
           THEN /\ result' = "InvalidFrameRange"
                /\ pc' = "failed"
                /\ tracks' = created
                /\ actionName' = anim_name
           ELSE /\ result' = "ok"
                /\ pc' = pc
                /\ tracks' = finished
                /\ actionName' = anim_name

\* One iteration of "for anim_arm in animations.objects" in
\* combine_animations_into_skeleton. The target is a duplicate of the first
\* armature of the collection, so the first armature met has the target's bones.
AddClipCombine(c) ==
    /\ path = "combine"
    /\ pc = "run"
    /\ nClips < MaxClips
    /\ (c.type = "ARMATURE" /\ ~seenArm) => c.bones = charBones
    /\ nClips' = nClips + 1
    /\ clip' = c
    /\ seenArm' = (seenArm \/ c.type = "ARMATURE")
    /\ actionName' = OrigActionName
    /\ UNCHANGED <<path, charBones, charScale, matVars, imgVars, retVars, batchVars, fixVars, cmpVars, tposeVars, rootVars, aliasVars>>
    /\ LET anim_name == AnimName(c.folder, c.file)
           finished  == Append(tracks,
                               NewTrack(anim_name,
                                        SetStrip(NewStrip(anim_name, anim_name), c.frame_range)))
       IN  IF c.type # "ARMATURE"
           THEN /\ result' = "skipped"
                /\ pc' = pc
                /\ tracks' = tracks
           ELSE IF bones_match_combine(charBones, c.bones) # "true"
           THEN /\ result' = "SkeletonMismatch"
                /\ pc' = "failed"
                /\ tracks' = tracks
           ELSE IF ~c.hasAction
           THEN /\ result' = "noaction"
                /\ pc' = pc
                /\ tracks' = tracks
           ELSE /\ result' = "ok"
                /\ pc' = pc
                /\ tracks' = finished

\* The loop over animations.objects ends. combine_animations_into_skeleton
\* raises before the loop when the collection holds no armature.
FinishTracks ==
    /\ pc = "run"
    /\ IF path = "combine" /\ ~seenArm
       THEN pc' = "failed" /\ result' = "NoArmature"
       ELSE pc' = "done" /\ result' = result
    /\ UNCHANGED <<path, charBones, charScale, tracks, clip, actionName, nClips, seenArm>>
    /\ UNCHANGED <<matVars, imgVars, retVars, batchVars, fixVars, cmpVars, tposeVars, rootVars, aliasVars>>

(***************************************************************************)
(* Material deduplication: deduplicate_materials of synty-scifi-city.py.   *)
(* A material is known by its place in bpy.data.materials (kept in name    *)
(* order by Blender) and by the number of its ".NNN" name suffix (0: no    *)
(* suffix). A node carries its type and the filepath of its image.         *)
(***************************************************************************)
MaxSuffix == 1
SuffixRangeEnd == 1000

NoImage   == "<no image>"
NodeTypes == {"TEX_IMAGE", "BSDF_PRINCIPLED"}
TexNode(p) == [type |-> "TEX_IMAGE", image |-> p]
BsdfNode   == [type |-> "BSDF_PRINCIPLED", image |-> NoImage]

\* node graphs of a material; an image has the filepath "t", "u" or none ("")
NodeLists ==
    { <<TexNode("t")>>, <<TexNode("u")>>,
      <<BsdfNode, TexNode(NoImage), TexNode("t")>>,
      <<TexNode(""), TexNode("t")>>,
      <<TexNode("u"), TexNode("t")>> }

MatIds == 1..3

\* a material without its place in the list; one without node tree has no nodes
MaterialBodies ==
    [suffix : 0..MaxSuffix, hasTree : {TRUE}, nodes : NodeLists]
    \cup [suffix : 0..MaxSuffix, hasTree : {FALSE}, nodes : {<<>>}]

\* slot.material of an empty slot
NoMat == 0

\* a mesh with two material slots and a curve with one
Objects ==
    { <<[type |-> "MESH", slots |-> <<a, b>>], [type |-> "CURVE", slots |-> <<c>>]>> :
        a \in MatIds \cup {NoMat}, b \in MatIds \cup {NoMat}, c \in {2, 3} }

\* any(m.name.endswith(f'.{i:03d}') for i in range(1, 1000))
HasSuffix(m) == \E i \in 1..(SuffixRangeEnd - 1) : m.suffix = i

\* texture_path of a material: the filepath of the image of its first
\* TEX_IMAGE node that has an image; "" when there is none
TexturePath(m) ==
    LET bearing == { i \in 1..Len(m.nodes) :
                       m.nodes[i].type = "TEX_IMAGE" /\ m.nodes[i].image # NoImage }
    IN  IF ~m.hasTree \/ bearing = {} THEN ""
        ELSE m.nodes[CHOOSE i \in bearing : \A j \in bearing : i <= j].image

\* materials_by_texture[texture_path], in the order of bpy.data.materials
MatGroup(ms, key) ==
    SelectSeq(ms, LAMBDA m : TexturePath(m) # "" /\ TexturePath(m) = key)

\* keeping the first material of the group, whatever its name
PrimaryIsFirst(group) == group[1]

\* the material kept of a group
Primary(group) ==
    LET plain == { i \in 1..Len(group) : ~HasSuffix(group[i]) }
    IN  IF plain = {} THEN group[1]
        ELSE group[CHOOSE i \in plain : \A j \in plain : i <= j]

\* the material id a material is replaced by (itself when it is kept)
ReplacedBy(ms, m) ==
    LET group == MatGroup(ms, TexturePath(m))
    IN  IF Len(group) <= 1 THEN m.id ELSE Primary(group).id

IsDuplicate(ms, m) == ReplacedBy(ms, m) # m.id

MatById(ms, id) == CHOOSE m \in { ms[i] : i \in 1..Len(ms) } : m.id = id

HasMat(ms, id) == \E i \in 1..Len(ms) : ms[i].id = id

\* the slots after the reassignment and the removal: a mesh slot of a
\* duplicate goes to the primary; bpy.data.materials.remove clears the slots
\* that still use a removed material
SlotsAfter(ms, o) ==
    [i \in 1..Len(o.slots) |->
        LET id == o.slots[i]
        IN  IF id = NoMat \/ ~HasMat(ms, id) THEN id
            ELSE IF ~IsDuplicate(ms, MatById(ms, id)) THEN id
            ELSE IF o.type = "MESH" THEN ReplacedBy(ms, MatById(ms, id))
            ELSE NoMat]

InitMaterials ==
    /\ \E f \in [MatIds -> MaterialBodies] :
          mats = [i \in MatIds |-> [id |-> i, suffix |-> f[i].suffix,
                                    hasTree |-> f[i].hasTree, nodes |-> f[i].nodes]]
    /\ objs \in Objects
    /\ mats0 = mats
    /\ objs0 = objs
    /\ pcM = "start"
    \* the track combining is idle
    /\ path = "idle"
    /\ charBones = {}
    /\ charScale = 1
    /\ tracks = <<>>
    /\ pc = "idle"
    /\ result = "none"
    /\ clip = NoClip
    /\ actionName = OrigActionName
    /\ nClips = 0
    /\ seenArm = FALSE
    \* the image deduplication is idle
    /\ flow = "idle"
    /\ imgs = <<>>
    /\ imats = <<>>
    /\ imgs0 = <<>>
    /\ imats0 = <<>>
    /\ pcI = "idle"
    /\ errI = "none"
    \* the retargeting is idle
    /\ source_arm = [bones |-> {}]
    /\ target_arm = [bones |-> {}]
    /\ frame_start = 0
    /\ frame_end = 0
    /\ frame = 0
    /\ common_bones = {}
    /\ deltas = <<>>
    /\ keyframes = <<>>
    /\ pcR = "idle"
    /\ source_arm2 = [bones |-> {}]
    /\ deltas2 = <<>>
    /\ keyframes2 = <<>>
    \* the batch driver is idle
    /\ driver = "idle"
    /\ units = <<>>
    /\ idx = 0
    /\ scene = {}
    /\ exported = <<>>
    /\ skipped_files = <<>>
    /\ summary = <<>>
    /\ errB = "none"
    /\ pcB = "idle"
    /\ steps = <<>>
    \* the fixing of texture references is idle
    /\ fx_nodes = <<>>
    /\ fx_nodes0 = <<>>
    /\ textures = {}
    /\ fx_exported = FALSE
    /\ errF = "none"
    /\ pcF = "idle"
    \* the bone comparison is idle
    /\ bones_fbx_a = <<>>
    /\ bones_fbx_b = <<>>
    /\ missing_in_fbx_a = {}
    /\ missing_in_fbx_b = {}
    /\ printed = {}
    /\ pcC = "idle"
    \* the T-pose test is idle
    /\ char_collection = <<>>
    /\ deviation_threshold = 0
    /\ fix = FALSE
    /\ any_deviation = FALSE
    /\ tp_result = "none"
    /\ pcT = "idle"
    \* no unit is being imported
    /\ root_fn = "idle"
    /\ imported_objects = <<>>
    /\ root_marked = {}
    /\ root_result = "none"
    /\ pcO = "idle"
    \* no path is being rewritten
    /\ al_path = <<>>
    /\ al_order = <<>>
    /\ al_out = <<>>
    /\ al_prev = <<>>
    /\ pcA = "idle"

\* deduplicate_materials()
DeduplicateMaterials ==
    /\ pcM = "start"
    /\ mats' = SelectSeq(mats, LAMBDA m : ~IsDuplicate(mats, m))
    /\ objs' = [k \in 1..Len(objs) |-> [objs[k] EXCEPT !.slots = SlotsAfter(mats, objs[k])]]
    /\ pcM' = "done"
    /\ UNCHANGED <<mats0, objs0>>
    /\ UNCHANGED <<trackVars, imgVars, retVars, batchVars, fixVars, cmpVars, tposeVars, rootVars, aliasVars>>

NextMaterials == DeduplicateMaterials

(***************************************************************************)
(* Image deduplication: deduplicate_images of synty-scifi-city.py and      *)
(* normalize_and_deduplicate_images of                                     *)
(* mixamo-add-animations-to-character.py. An image is known by its place   *)
(* in bpy.data.images (kept in name order by Blender); its name is built   *)
(* from that place and from its ".NNN" suffix. A path is a sequence of     *)
(* characters.                                                             *)
(***************************************************************************)
ImgIds == 1..3
NoImg  == 0

ImgName(img) ==
    <<"i", "m", "g", ToString(img.id)>>
        \o (IF img.suffix = 0 THEN <<>> ELSE <<".", "0", "0", ToString(img.suffix)>>)

\* bpy.path.abspath(path) in a scene that was never saved: a leading "//" is
\* replaced by the (empty) directory of the blend file
abspath(p) ==
    IF Len(p) >= 2 /\ p[1] = "/" /\ p[2] = "/" THEN SubSeq(p, 3, Len(p)) ELSE p

\* the key without the normalisation of the path
ImageKeyRaw(img) == IF img.filepath # <<>> THEN img.filepath ELSE ImgName(img)

\* key = bpy.path.abspath(img.filepath) if img.filepath else img.name
ImageKey(img) == IF img.filepath # <<>> THEN abspath(img.filepath) ELSE ImgName(img)

ImgPaths == { <<>>, <<"/", "/", "t">>, <<"t">>, <<"u">> }

\* what normalize_and_deduplicate_images reads of an image beside its path:
\* img.type, img.packed_file, os.path.exists(abs_path), img.size > 0.
\* The render result and the viewer image of Blender have no filepath.
ImgSources ==
    { [type |-> "RENDER_RESULT", packed |-> FALSE, filepath |-> <<>>,
       exists |-> FALSE, hasSize |-> TRUE] }
    \cup [type : {"IMAGE"}, packed : {TRUE}, filepath : ImgPaths \ {<<"u">>},
          exists : {FALSE}, hasSize : {TRUE}]
    \cup [type : {"IMAGE"}, packed : {FALSE}, filepath : ImgPaths \ {<<>>},
          exists : {TRUE}, hasSize : {TRUE}]
    \cup [type : {"IMAGE"}, packed : {FALSE}, filepath : {<<"t">>},
          exists : {FALSE}, hasSize : {TRUE}]
    \cup [type : {"IMAGE"}, packed : {FALSE}, filepath : {<<>>},
          exists : {FALSE}, hasSize : BOOLEAN]

\* deduplicate_images reads the path and the name only
SyntySources ==
    [type : {"IMAGE"}, packed : {FALSE}, filepath : ImgPaths,
     exists : {TRUE}, hasSize : {TRUE}]

MkImage(i, sfx, src) ==
    [id |-> i, suffix |-> sfx, type |-> src.type, packed |-> src.packed,
     filepath |-> src.filepath, exists |-> src.exists, hasSize |-> src.hasSize]

\* the node trees of two materials: one with two image nodes, and one that
\* has a single image node or no node tree
NodeTrees ==
    { <<[hasTree |-> TRUE, nodes |-> <<a, b>>], m>> :
        a \in ImgIds \cup {NoImg}, b \in ImgIds \cup {NoImg},
        m \in { [hasTree |-> TRUE, nodes |-> <<c>>] : c \in ImgIds }
              \cup { [hasTree |-> FALSE, nodes |-> <<>>] } }

\* seen[key] when img is met: the first image of the list with the key of img
\* (earlier images with that key were removed, the first stays)
Original(list, img) ==
    list[CHOOSE i \in 1..Len(list) :
            /\ ImageKey(list[i]) = ImageKey(img)
            /\ \A j \in 1..Len(list) : ImageKey(list[j]) = ImageKey(img) => i <= j]

ImgById(list, id) == CHOOSE x \in { list[i] : i \in 1..Len(list) } : x.id = id

HasImg(list, id) == \E i \in 1..Len(list) : list[i].id = id

\* node.image of every node after the duplicates were reassigned
ReassignNodes(list, trees) ==
    [m \in 1..Len(trees) |->
        IF ~trees[m].hasTree THEN trees[m]
        ELSE [trees[m] EXCEPT !.nodes =
                [n \in 1..Len(trees[m].nodes) |->
                    LET id == trees[m].nodes[n]
                    IN  IF id = NoImg THEN id ELSE Original(list, ImgById(list, id)).id]]]

\* the images deduplicate_images leaves
KeptImages(list) == SelectSeq(list, LAMBDA img : Original(list, img).id = img.id)

\* Step 1 without the test of the size of an image that has no path
Step1OutcomeNoSizeTest(img) ==
    IF img.type \in {"RENDER_RESULT", "COMPOSITING"} THEN "skip"
    ELSE IF img.packed THEN "pack"
    ELSE IF img.filepath # <<>>
         THEN (IF img.exists THEN "pack" ELSE "FileNotFoundError")
    ELSE "RuntimeError"

(* Step 1 of normalize_and_deduplicate_images, image by image. *)
Step1Outcome(img) ==
    IF img.type \in {"RENDER_RESULT", "COMPOSITING"} THEN "skip"
    ELSE IF img.packed THEN "pack"
    ELSE IF img.filepath # <<>>
         THEN (IF img.exists THEN "pack" ELSE "FileNotFoundError")
    ELSE IF img.hasSize THEN "warn" ELSE "RuntimeError"

Step1Image(img) ==
    IF Step1Outcome(img) = "pack"
    THEN [img EXCEPT !.packed = TRUE, !.filepath = <<"/", "/">> \o ImgName(img)]
    ELSE img

IsError(o) == o \in {"FileNotFoundError", "RuntimeError"}

\* the place of the first image on which Step 1 raises, 0 when it does not
Step1Failure(list) ==
    LET bad == { i \in 1..Len(list) : IsError(Step1Outcome(list[i])) }
    IN  IF bad = {} THEN 0 ELSE CHOOSE i \in bad : \A j \in bad : i <= j

\* the images when Step 1 ends or raises: those before the failure are packed
Step1Images(list) ==
    LET f == Step1Failure(list)
    IN  [i \in 1..Len(list) |-> IF f = 0 \/ i < f THEN Step1Image(list[i]) ELSE list[i]]

\* Step 2 groups the images that have a filepath by abspath(filepath)
HasDuplicateGroup(list) ==
    \E i, j \in 1..Len(list) :
        /\ i < j
        /\ list[i].filepath # <<>>
        /\ list[j].filepath # <<>>
        /\ abspath(list[i].filepath) = abspath(list[j].filepath)

InitImages ==
    /\ flow \in {"synty", "mixamo"}
    /\ \E sfx \in [ImgIds -> 0..MaxSuffix] :
         \E src \in [ImgIds -> IF flow = "synty" THEN SyntySources ELSE ImgSources] :
            /\ flow = "mixamo" => \A i \in ImgIds : sfx[i] = 0
            /\ imgs = [i \in ImgIds |-> MkImage(i, sfx[i], src[i])]
    /\ imats \in NodeTrees
    /\ imgs0 = imgs
    /\ imats0 = imats
    /\ pcI = "start"
    /\ errI = "none"
    \* the track combining is idle
    /\ path = "idle"
    /\ charBones = {}
    /\ charScale = 1
    /\ tracks = <<>>
    /\ pc = "idle"
    /\ result = "none"
    /\ clip = NoClip
    /\ actionName = OrigActionName
    /\ nClips = 0
    /\ seenArm = FALSE
    \* the material deduplication is idle
    /\ mats = <<>>
    /\ objs = <<>>
    /\ mats0 = <<>>
    /\ objs0 = <<>>
    /\ pcM = "idle"
    \* the retargeting is idle
    /\ source_arm = [bones |-> {}]
    /\ target_arm = [bones |-> {}]
    /\ frame_start = 0
    /\ frame_end = 0
    /\ frame = 0
    /\ common_bones = {}
    /\ deltas = <<>>
    /\ keyframes = <<>>
    /\ pcR = "idle"
    /\ source_arm2 = [bones |-> {}]
    /\ deltas2 = <<>>
    /\ keyframes2 = <<>>
    \* the batch driver is idle
    /\ driver = "idle"
    /\ units = <<>>
    /\ idx = 0
    /\ scene = {}
    /\ exported = <<>>
    /\ skipped_files = <<>>
    /\ summary = <<>>
    /\ errB = "none"
    /\ pcB = "idle"
    /\ steps = <<>>
    \* the fixing of texture references is idle
    /\ fx_nodes = <<>>
    /\ fx_nodes0 = <<>>
    /\ textures = {}
    /\ fx_exported = FALSE
    /\ errF = "none"
    /\ pcF = "idle"
    \* the bone comparison is idle
    /\ bones_fbx_a = <<>>
    /\ bones_fbx_b = <<>>
    /\ missing_in_fbx_a = {}
    /\ missing_in_fbx_b = {}
    /\ printed = {}
    /\ pcC = "idle"
    \* the T-pose test is idle
    /\ char_collection = <<>>
    /\ deviation_threshold = 0
    /\ fix = FALSE
    /\ any_deviation = FALSE
    /\ tp_result = "none"
    /\ pcT = "idle"
    \* no unit is being imported
    /\ root_fn = "idle"
    /\ imported_objects = <<>>
    /\ root_marked = {}
    /\ root_result = "none"
    /\ pcO = "idle"
    \* no path is being rewritten
    /\ al_path = <<>>
    /\ al_order = <<>>
    /\ al_out = <<>>
    /\ al_prev = <<>>
    /\ pcA = "idle"

\* deduplicate_images()
DeduplicateImages ==
    /\ flow = "synty"
    /\ pcI = "start"
    /\ imgs' = KeptImages(imgs)
    /\ imats' = ReassignNodes(imgs, imats)
    /\ pcI' = "done"
    /\ UNCHANGED <<flow, imgs0, imats0, errI>>
    /\ UNCHANGED <<trackVars, matVars, retVars, batchVars, fixVars, cmpVars, tposeVars, rootVars, aliasVars>>

\* normalize_and_deduplicate_images(). In Step 2 "for user in dup_img.users"
\* iterates over ID.users, which is an integer: the first duplicate met raises
\* a TypeError before anything is reassigned or removed.
NormalizeAndDeduplicateImages ==
    /\ flow = "mixamo"
    /\ pcI = "start"
    /\ imgs' = Step1Images(imgs)
    /\ imats' = imats
    /\ IF Step1Failure(imgs) # 0
       THEN /\ pcI' = "failed"
            /\ errI' = Step1Outcome(imgs[Step1Failure(imgs)])
            /\ UNCHANGED <<imgs0, imats0>>
       ELSE /\ imgs0' = Step1Images(imgs)
            /\ imats0' = imats
            /\ IF HasDuplicateGroup(Step1Images(imgs))
               THEN pcI' = "failed" /\ errI' = "TypeError"
               ELSE pcI' = "done" /\ errI' = "none"
    /\ UNCHANGED flow
    /\ UNCHANGED <<trackVars, matVars, retVars, batchVars, fixVars, cmpVars, tposeVars, rootVars, aliasVars>>

(***************************************************************************)
(* Retargeting: retarget_preserve_current of                               *)
(* synty-animation-skeleton-to-tpose-testing.py. A matrix is an affine map *)
(* x |-> a*x + b of the line with a in {1, -1}, together with a rotation   *)
(* about that line by rot quarter turns: the product of matrices ("@") is  *)
(* the composition, which does not commute, and inverted() is the inverse. *)
(***************************************************************************)
MaxFrame == 2

Identity    == [a |-> 1, b |-> 0, rot |-> 0]
Translation == [a |-> 1, b |-> 1, rot |-> 0]
Reflection  == [a |-> -1, b |-> 0, rot |-> 0]
HalfTurn    == [a |-> 1, b |-> 0, rot |-> 2]
\* three quarter turns, and a translation
ThreeQuarterTurn == [a |-> 1, b |-> 1, rot |-> 3]

\* A @ B
MatMul(A, B) ==
    [a |-> A.a * B.a, b |-> A.a * B.b + A.b, rot |-> (A.rot + B.rot) % 4]

\* A.inverted()
Inverted(A) == [a |-> A.a, b |-> -(A.a * A.b), rot |-> (4 - A.rot) % 4]

\* The rotation of a matrix as a quaternion <<w, z>> about the line, up to a
\* positive factor. Blender converts a matrix to the quaternion whose w is
\* not negative, whatever the quaternion of the frame before was: three
\* quarter turns are the quarter turn backwards.
to_quaternion(m) ==
    CASE m.rot = 0 -> <<1, 0>>
      [] m.rot = 1 -> <<1, 1>>
      [] m.rot = 2 -> <<0, 1>>
      [] m.rot = 3 -> <<1, -1>>

WorldMatrices == {Identity, Translation, Reflection}
RestMatrices  == {Translation, Reflection}
PoseMatrices  == {HalfTurn, ThreeQuarterTurn}

Frames == 1..MaxFrame

\* armature.data.bones[bn].matrix_local of every bone of the armature
RestsOf(bones) ==
    { r \in [BoneNames -> RestMatrices \cup {Identity}] :
        \A b \in BoneNames : (r[b] = Identity) <=> (b \notin bones) }

\* source_arm.pose.bones[bn].matrix at every frame of the range
PosesOf(bones, first, last) ==
    { p \in [BoneNames -> [Frames -> PoseMatrices \cup {Identity}]] :
        \A b \in BoneNames : \A f \in Frames :
            (p[b][f] = Identity) <=> (b \notin bones \/ f < first \/ f > last) }

\* tgt_rest_world = target_arm.matrix_world @ target_arm.data.bones[bn].matrix_local
tgt_rest_world(bn) ==
    MatMul(target_arm.matrix_world, target_arm.matrix_local[bn])

\* src_pose_world = source_arm.matrix_world @ src_pose_b.matrix, for the
\* source armature src
src_pose_world_of(src, bn, f) == MatMul(src.matrix_world, src.pose[bn][f])

src_pose_world(bn, f) == src_pose_world_of(source_arm, bn, f)

\* the target rest with the delta of frame_start applied
desired_world_from_delta(bn, f) == MatMul(tgt_rest_world(bn), deltas[bn])

\* desired_world =
\*   tgt_rest_world @ (source_arm.data.bones[bn].matrix_local.inverted() @ src_pose_world)
desired_world(bn, f) ==
    MatMul(tgt_rest_world(bn),
           MatMul(Inverted(source_arm.matrix_local[bn]), src_pose_world(bn, f)))

\* tgt_pose_b.matrix = target_arm.matrix_world.inverted() @ desired_world
tgt_pose_matrix(bn, f) ==
    MatMul(Inverted(target_arm.matrix_world), desired_world(bn, f))

\* the delta dl of the bone, computed at frame_start, applied to the target rest
desired_world_of_delta(src, dl, bn, f) == MatMul(tgt_rest_world(bn), dl[bn])

\* desired_world for the source armature src, whose deltas are dl: the line
\* "delta = deltas[bn]" reads the delta, and desired_world does not use it
desired_world_of(src, dl, bn, f) ==
    MatMul(tgt_rest_world(bn),
           MatMul(Inverted(src.matrix_local[bn]), src_pose_world_of(src, bn, f)))

\* every bone of the target
all_target_bones(src, tgt) == tgt.bones

\* common_bones = [bn.name for bn in source_arm.data.bones if bn.name in target_arm.data.bones]
CommonBones(src, tgt) == { bn \in src.bones : bn \in tgt.bones }

\* the deltas of the common bones of the source armature src
DeltasOf(src) ==
    [bn \in CommonBones(src, target_arm) |->
        MatMul(Inverted(MatMul(src.matrix_world, src.matrix_local[bn])),
               src_pose_world_of(src, bn, frame_start))]

InitRetarget ==
    /\ frame_start \in Frames
    /\ frame_end \in frame_start..MaxFrame
    /\ \E sb \in SUBSET BoneNames, tb \in SUBSET BoneNames :
        \E sr \in RestsOf(sb), tr \in RestsOf(tb) :
          \E sw \in WorldMatrices, tw \in WorldMatrices :
            \E sp \in PosesOf(sb, frame_start, frame_end) :
                /\ source_arm = [bones |-> sb, matrix_world |-> sw,
                                 matrix_local |-> sr, pose |-> sp]
                \* the target is in its rest pose
                /\ target_arm = [bones |-> tb, matrix_world |-> tw,
                                 matrix_local |-> tr, pose |-> tr]
    /\ frame = 0
    /\ common_bones = {}
    /\ deltas = <<>>
    /\ keyframes = [bn \in BoneNames |-> [f \in Frames |-> <<>>]]
    /\ pcR = "start"
    \* the source of the second run has another pose at frame_start
    /\ \E q \in PoseMatrices :
          source_arm2 =
            [source_arm EXCEPT !.pose =
                [bn \in BoneNames |->
                    IF bn \in source_arm.bones
                    THEN [source_arm.pose[bn] EXCEPT ![frame_start] = q]
                    ELSE source_arm.pose[bn]]]
    /\ keyframes2 = [bn \in BoneNames |-> [f \in Frames |-> <<>>]]
    /\ deltas2 = <<>>
    \* the track combining is idle
    /\ path = "idle"
    /\ charBones = {}
    /\ charScale = 1
    /\ tracks = <<>>
    /\ pc = "idle"
    /\ result = "none"
    /\ clip = NoClip
    /\ actionName = OrigActionName
    /\ nClips = 0
    /\ seenArm = FALSE
    \* the material deduplication is idle
    /\ mats = <<>>
    /\ objs = <<>>
    /\ mats0 = <<>>
    /\ objs0 = <<>>
    /\ pcM = "idle"
    \* the image deduplication is idle
    /\ flow = "idle"
    /\ imgs = <<>>
    /\ imats = <<>>
    /\ imgs0 = <<>>
    /\ imats0 = <<>>
    /\ pcI = "idle"
    /\ errI = "none"
    \* the batch driver is idle
    /\ driver = "idle"
    /\ units = <<>>
    /\ idx = 0
    /\ scene = {}
    /\ exported = <<>>
    /\ skipped_files = <<>>
    /\ summary = <<>>
    /\ errB = "none"
    /\ pcB = "idle"
    /\ steps = <<>>
    \* the fixing of texture references is idle
    /\ fx_nodes = <<>>
    /\ fx_nodes0 = <<>>
    /\ textures = {}
    /\ fx_exported = FALSE
    /\ errF = "none"
    /\ pcF = "idle"
    \* the bone comparison is idle
    /\ bones_fbx_a = <<>>
    /\ bones_fbx_b = <<>>
    /\ missing_in_fbx_a = {}
    /\ missing_in_fbx_b = {}
    /\ printed = {}
    /\ pcC = "idle"
    \* the T-pose test is idle
    /\ char_collection = <<>>
    /\ deviation_threshold = 0
    /\ fix = FALSE
    /\ any_deviation = FALSE
    /\ tp_result = "none"
    /\ pcT = "idle"
    \* no unit is being imported
    /\ root_fn = "idle"
    /\ imported_objects = <<>>
    /\ root_marked = {}
    /\ root_result = "none"
    /\ pcO = "idle"
    \* no path is being rewritten
    /\ al_path = <<>>
    /\ al_order = <<>>
    /\ al_out = <<>>
    /\ al_prev = <<>>
    /\ pcA = "idle"

\* the common bones, and the delta of every common bone at frame_start
RetargetBegin ==
    /\ pcR = "start"
    /\ common_bones' = CommonBones(source_arm, target_arm)
    /\ frame' = frame_start
    /\ deltas' = [bn \in CommonBones(source_arm, target_arm) |->
                    MatMul(Inverted(MatMul(source_arm.matrix_world,
                                           source_arm.matrix_local[bn])),
                           src_pose_world(bn, frame_start))]
    /\ pcR' = "loop"
    /\ deltas2' = DeltasOf(source_arm2)
    /\ UNCHANGED <<source_arm, target_arm, frame_start, frame_end, keyframes>>
    /\ UNCHANGED <<source_arm2, keyframes2>>
    /\ UNCHANGED <<trackVars, matVars, imgVars, batchVars, fixVars, cmpVars, tposeVars, rootVars, aliasVars>>

\* one iteration of "for frame in range(frame_start, frame_end + 1)"
RetargetFrame ==
    /\ pcR = "loop"
    /\ frame < frame_end + 1
    /\ target_arm' = [target_arm EXCEPT !.pose =
            [bn \in BoneNames |->
                IF bn \in common_bones THEN tgt_pose_matrix(bn, frame) ELSE @[bn]]]
    /\ keyframes' = [bn \in BoneNames |->
            IF bn \in common_bones
            THEN [keyframes[bn] EXCEPT ![frame] = Append(@, tgt_pose_matrix(bn, frame))]
            ELSE keyframes[bn]]
    /\ frame' = frame + 1
    /\ keyframes2' = [bn \in BoneNames |->
            IF bn \in common_bones
            THEN [keyframes2[bn] EXCEPT ![frame] =
                    Append(@, MatMul(Inverted(target_arm.matrix_world),
                                     desired_world_of(source_arm2, deltas2, bn, frame)))]
            ELSE keyframes2[bn]]
    /\ UNCHANGED <<source_arm, frame_start, frame_end, common_bones, deltas, pcR>>
    /\ UNCHANGED <<source_arm2, deltas2>>
    /\ UNCHANGED <<trackVars, matVars, imgVars, batchVars, fixVars, cmpVars, tposeVars, rootVars, aliasVars>>

\* the range is exhausted
RetargetEnd ==
    /\ pcR = "loop"
    /\ ~(frame < frame_end + 1)
    /\ pcR' = "done"
    /\ UNCHANGED <<source_arm, target_arm, frame_start, frame_end, frame, common_bones,
                   deltas, keyframes, source_arm2, deltas2, keyframes2>>
    /\ UNCHANGED <<trackVars, matVars, imgVars, batchVars, fixVars, cmpVars, tposeVars, rootVars, aliasVars>>

(***************************************************************************)
(* Batch drivers: the loop over the character files of main in             *)
(* mixamo-add-animations-to-character.py and process_files (with           *)
(* process_characters) of synty-scifi-city.py. A unit is one input file;   *)
(* of its content only what decides the path through the loop body is      *)
(* kept: the class of its name, whether the import or the processing       *)
(* raises, whether the character is in T-pose.                             *)
(***************************************************************************)
MaxUnits == 3

\* no list is printed
NoSummary == <<"(none)">>

\* class of the base name of a file: "Characters.fbx", a name that starts
\* with "sm_", a name of SM_FILES_TO_SKIP, any other name
SyntyClasses == {"characters", "sm", "sm_skip", "other"}

\* where the body of the loop raises for the unit, if it does: after the
\* import (get_root_object, get_character, the non-mesh test) or later
\* (fix_missing_mesh_materials, normalize_and_deduplicate_images,
\* combine_characters_and_animations)
Faults == {"none", "import", "process"}

\* the base name that process_files hands to process_characters
CharactersFile == <<"C", "h", "a", "r", "a", "c", "t", "e", "r", "s", ".", "f", "b", "x">>

SM_FILES_TO_SKIP == { <<"S", "M", "_", "L", "i", "g", "h", "t", "R", "a", "y", "C", "u", "b", "e", ".", "f", "b", "x">> }

\* the base names of the files of the FBX directory, in the order
\* fbx_files.sort() gives them (upper case sorts before "_" and lower case)
SyntyNames ==
    << <<"C", "h", "a", "r", "a", "c", "t", "e", "r", "s", ".", "f", "b", "x">>,
       <<"S", "M", "_", "L", "i", "g", "h", "t", "R", "a", "y", "C", "u", "b", "e", ".", "f", "b", "x">>,
       <<"S", "M", "_", "a", ".", "f", "b", "x">>,
       <<"a", ".", "f", "b", "x">>,
       <<"c", "h", "a", "r", "a", "c", "t", "e", "r", "s", ".", "f", "b", "x">>,
       <<"s", "m", "_", "a", ".", "f", "b", "x">>,
       <<"s", "m", "_", "l", "i", "g", "h", "t", "r", "a", "y", "c", "u", "b", "e", ".", "f", "b", "x">> >>

\* str.startswith
StartsWith(str, prefix) ==
    Len(str) >= Len(prefix) /\ SubSeq(str, 1, Len(prefix)) = prefix

\* the tests of the base name with a prefix test that minds the case
ClassOfCaseSensitive(name) ==
    IF name = CharactersFile THEN "characters"
    ELSE IF ~StartsWith(name, <<"s", "m", "_">>) THEN "other"
    ELSE IF name \in SM_FILES_TO_SKIP THEN "sm_skip"
    ELSE "sm"

\* the tests process_files makes of the base name of a file, in their order
ClassOf(name) ==
    IF name = CharactersFile THEN "characters"
    ELSE IF ~StartsWith(Lower(name), <<"s", "m", "_">>) THEN "other"
    ELSE IF name \in SM_FILES_TO_SKIP THEN "sm_skip"
    ELSE "sm"

\* the place of a base name in the sorted directory
Place(name) == CHOOSE i \in 1..Len(SyntyNames) : SyntyNames[i] = name

SyntyUnits ==
    { [class |-> ClassOf(SyntyNames[i]), fault |-> f, tpose |-> TRUE,
       name |-> SyntyNames[i]] : i \in 1..Len(SyntyNames), f \in Faults }

MixamoUnits == [class : {"character"}, fault : Faults, tpose : BOOLEAN]

\* the sorted lists of input files: "Characters.fbx" is one file, and it
\* sorts before every "SM_..." and "sm_..." name
UnitLists(U) ==
    { l \in UNION { [1..n -> U] : n \in 1..MaxUnits } :
        \A i, j \in 1..Len(l) :
            /\ (i # j /\ l[i].class = "characters") => l[j].class # "characters"
            /\ (i < j /\ l[i].class \in {"sm", "sm_skip"}) => l[j].class # "characters" }

\* the kinds of datablock an import makes
ImportedKinds == {"object", "image", "material", "action"}

\* the scene is left as it is
keep_scene(sc) == sc

\* bpy.ops.wm.read_factory_settings(use_empty=True)
read_factory_settings(sc) == {}

\* "if not is_in_t_pose(character): ... continue" of main
not_exporting(in_t_pose) == ~in_t_pose

\* the file is skipped without being imported
IsSkipped(u) == driver = "synty" /\ u.class \in {"other", "sm_skip"}

\* the steps of the body of the loop that import the unit
ImportSteps(d) ==
    IF d = "mixamo" THEN <<"get_animations", "get_character">>
    ELSE <<"import_scene.fbx", "get_root_object">>

\* the steps after the import with the combining before the image pass
ProcessStepsCombineFirst(d, class) ==
    IF d = "mixamo"
    THEN <<"is_in_t_pose", "combine_characters_and_animations",
           "normalize_and_deduplicate_images", "export">>
    ELSE <<"fix_missing_mesh_materials", "deduplicate_images",
           "deduplicate_materials", "export">>

\* the steps of the body of the loop after the import, the export last: main
\* for a character file, process_characters for "Characters.fbx",
\* process_files for a mesh file
ProcessSteps(d, class) ==
    IF d = "mixamo"
    THEN <<"is_in_t_pose", "normalize_and_deduplicate_images",
           "combine_characters_and_animations", "export">>
    ELSE IF class = "characters"
    THEN <<"scale_bones", "fix_missing_mesh_materials", "export">>
    ELSE <<"fix_missing_mesh_materials", "deduplicate_images",
           "deduplicate_materials", "export">>

\* the log with the steps made for the unit at place i added
Logged(log, i, names) == log \o [k \in 1..Len(names) |-> [unit |-> i, step |-> names[k]]]

InitBatch ==
    /\ driver \in {"mixamo", "synty"}
    /\ units \in IF driver = "synty"
                 THEN { l \in UnitLists(SyntyUnits) :
                          \A i, j \in 1..Len(l) :
                              i < j => Place(l[i].name) < Place(l[j].name) }
                 ELSE UnitLists(MixamoUnits)
    /\ idx = 1
    /\ scene = {}
    /\ exported = <<>>
    /\ skipped_files = <<>>
    /\ summary = NoSummary
    /\ errB = "none"
    /\ pcB = "loop"
    /\ steps = <<>>
    \* the track combining is idle
    /\ path = "idle"
    /\ charBones = {}
    /\ charScale = 1
    /\ tracks = <<>>
    /\ pc = "idle"
    /\ result = "none"
    /\ clip = NoClip
    /\ actionName = OrigActionName
    /\ nClips = 0
    /\ seenArm = FALSE
    \* the material deduplication is idle
    /\ mats = <<>>
    /\ objs = <<>>
    /\ mats0 = <<>>
    /\ objs0 = <<>>
    /\ pcM = "idle"
    \* the image deduplication is idle
    /\ flow = "idle"
    /\ imgs = <<>>
    /\ imats = <<>>
    /\ imgs0 = <<>>
    /\ imats0 = <<>>
    /\ pcI = "idle"
    /\ errI = "none"
    \* the retargeting is idle
    /\ source_arm = [bones |-> {}]
    /\ target_arm = [bones |-> {}]
    /\ frame_start = 0
    /\ frame_end = 0
    /\ frame = 0
    /\ common_bones = {}
    /\ deltas = <<>>
    /\ keyframes = <<>>
    /\ pcR = "idle"
    /\ source_arm2 = [bones |-> {}]
    /\ deltas2 = <<>>
    /\ keyframes2 = <<>>
    \* the fixing of texture references is idle
    /\ fx_nodes = <<>>
    /\ fx_nodes0 = <<>>
    /\ textures = {}
    /\ fx_exported = FALSE
    /\ errF = "none"
    /\ pcF = "idle"
    \* the bone comparison is idle
    /\ bones_fbx_a = <<>>
    /\ bones_fbx_b = <<>>
    /\ missing_in_fbx_a = {}
    /\ missing_in_fbx_b = {}
    /\ printed = {}
    /\ pcC = "idle"
    \* the T-pose test is idle
    /\ char_collection = <<>>
    /\ deviation_threshold = 0
    /\ fix = FALSE
    /\ any_deviation = FALSE
    /\ tp_result = "none"
    /\ pcT = "idle"
    \* no unit is being imported
    /\ root_fn = "idle"
    /\ imported_objects = <<>>
    /\ root_marked = {}
    /\ root_result = "none"
    /\ pcO = "idle"
    \* no path is being rewritten
    /\ al_path = <<>>
    /\ al_order = <<>>
    /\ al_out = <<>>
    /\ al_prev = <<>>
    /\ pcA = "idle"

\* process_files: a file that does not start with "sm_" or is in
\* SM_FILES_TO_SKIP is added to skipped_files
UnitSkip ==
    /\ pcB = "loop"
    /\ idx <= Len(units)
    /\ IsSkipped(units[idx])
    /\ skipped_files' = Append(skipped_files, idx)
    /\ idx' = idx + 1
    /\ UNCHANGED <<driver, units, scene, exported, summary, errB, pcB, steps>>
    /\ UNCHANGED <<trackVars, matVars, imgVars, retVars, fixVars, cmpVars, tposeVars, rootVars, aliasVars>>

\* the body of the loop starts by clearing the scene
UnitBegin ==
    /\ pcB = "loop"
    /\ idx <= Len(units)
    /\ ~IsSkipped(units[idx])
    /\ scene' = read_factory_settings(scene)
    /\ pcB' = "import"
    /\ steps' = Logged(steps, idx, <<"read_factory_settings">>)
    /\ UNCHANGED <<driver, units, idx, exported, skipped_files, summary, errB>>
    /\ UNCHANGED <<trackVars, matVars, imgVars, retVars, fixVars, cmpVars, tposeVars, rootVars, aliasVars>>

\* bpy.ops.import_scene.fbx and the tests of what was imported
UnitImport ==
    /\ pcB = "import"
    /\ scene' = scene \cup { [unit |-> idx, kind |-> k] : k \in ImportedKinds }
    /\ IF units[idx].fault = "import"
       THEN pcB' = "failed" /\ errB' = "import"
       ELSE pcB' = "process" /\ errB' = errB
    /\ steps' = Logged(steps, idx, ImportSteps(driver))
    /\ UNCHANGED <<driver, units, idx, exported, skipped_files, summary>>
    /\ UNCHANGED <<trackVars, matVars, imgVars, retVars, fixVars, cmpVars, tposeVars, rootVars, aliasVars>>

\* the rest of the body: the T-pose test of main, the fixing and the
\* deduplication, the combining, and the export
UnitProcess ==
    /\ pcB = "process"
    /\ IF driver = "mixamo" /\ not_exporting(units[idx].tpose)
       THEN \* "Character not in T-Pose, not exporting"; continue
            /\ idx' = idx + 1
            /\ pcB' = "loop"
            /\ steps' = Logged(steps, idx, <<"is_in_t_pose">>)
            /\ UNCHANGED <<scene, exported, errB>>
       ELSE IF units[idx].fault = "process"
       THEN /\ pcB' = "failed"
            /\ errB' = "process"
            /\ \E n \in 1..(Len(ProcessSteps(driver, units[idx].class)) - 1) :
                  steps' = Logged(steps, idx,
                                  SubSeq(ProcessSteps(driver, units[idx].class), 1, n))
            /\ UNCHANGED <<idx, scene, exported>>
       ELSE /\ scene' = IF driver = "mixamo"
                        THEN scene \cup {[unit |-> idx, kind |-> "track"]}
                        ELSE scene
            /\ exported' = Append(exported, idx)
            /\ idx' = idx + 1
            /\ pcB' = "loop"
            /\ errB' = errB
            /\ steps' = Logged(steps, idx, ProcessSteps(driver, units[idx].class))
    /\ UNCHANGED <<driver, units, skipped_files, summary>>
    /\ UNCHANGED <<trackVars, matVars, imgVars, retVars, fixVars, cmpVars, tposeVars, rootVars, aliasVars>>

\* after the loop: process_files prints skipped_files, main prints "Complete!"
BatchEnd ==
    /\ pcB = "loop"
    /\ idx > Len(units)
    /\ summary' = IF driver = "synty" THEN skipped_files ELSE NoSummary
    /\ pcB' = "done"
    /\ UNCHANGED <<driver, units, idx, scene, exported, skipped_files, errB, steps>>
    /\ UNCHANGED <<trackVars, matVars, imgVars, retVars, fixVars, cmpVars, tposeVars, rootVars, aliasVars>>

(***************************************************************************)
(* fix_missing_mesh_materials of synty-scifi-city.py, for one mesh. A path *)
(* is a sequence of characters; the files of <output_path>/textures are    *)
(* known by their names.                                                   *)
(***************************************************************************)
\* FILE_REPLACEMENTS, in the order of the dictionary: two names of files that
\* the pack does not ship, with the name of the file to use instead
FILE_REPLACEMENTS ==
    << [old_name |-> <<"k">>, new_name |-> <<"n">>],
       [old_name |-> <<"j">>, new_name |-> <<"n">>] >>

\* the path of a TEX_IMAGE node whose image is None
NoPathSet == <<"(no path set)">>

RECURSIVE basename(_)
\* os.path.basename
basename(p) ==
    IF \E i \in 1..Len(p) : p[i] = "/" THEN basename(Tail(p)) ELSE p

\* old in s
Contains(s, old) ==
    \E i \in 1..(Len(s) - Len(old) + 1) : SubSeq(s, i, i + Len(old) - 1) = old

RECURSIVE str_replace(_, _, _)
\* s.replace(old, new)
str_replace(s, old, new) ==
    IF Len(s) < Len(old) THEN s
    ELSE IF SubSeq(s, 1, Len(old)) = old
         THEN new \o str_replace(SubSeq(s, Len(old) + 1, Len(s)), old, new)
         ELSE <<Head(s)>> \o str_replace(Tail(s), old, new)

RECURSIVE ApplyReplacements(_, _)
\* for old_name, new_name in FILE_REPLACEMENTS.items():
\*     if old_name in img_path: img_path = img_path.replace(old_name, new_name)
ApplyReplacements(img_path, table) ==
    IF table = <<>> THEN img_path
    ELSE ApplyReplacements(
            IF Contains(img_path, Head(table).old_name)
            THEN str_replace(img_path, Head(table).old_name, Head(table).new_name)
            ELSE img_path,
            Tail(table))

\* os.path.join("textures", name)
InTextures(name) == <<"t", "e", "x", "t", "u", "r", "e", "s", "/">> \o name

\* os.path.exists(os.path.join(output_path, "textures", name))
Exists(name) == name \in textures

FxDirs  == { <<>>, <<"d", "/">> }
FxNames == { <<"k">>, <<"j">>, <<"n">>, <<"x">>, <<"x", "k">> }
FxFiles == { <<"k">>, <<"n">>, <<"x">>, <<"x", "n">> }

\* the nodes of a node tree: image textures with an image, image textures
\* without one, and nodes of another type
FxNodeKinds ==
    { [type |-> "TEX_IMAGE", hasImage |-> TRUE, filepath |-> d \o n] :
        d \in FxDirs, n \in FxNames }
    \cup { [type |-> "TEX_IMAGE", hasImage |-> FALSE, filepath |-> <<>>],
           [type |-> "BSDF_PRINCIPLED", hasImage |-> FALSE, filepath |-> <<>>] }

MaxNodes == 2

\* what the loop body does with one node: the node after it, or the exception
FixNode(node) ==
    IF node.type # "TEX_IMAGE" THEN [node |-> node, err |-> "none"]
    ELSE LET img_path == IF node.hasImage THEN node.filepath ELSE NoPathSet
         IN  IF Exists(basename(img_path))
             THEN IF node.hasImage
                  THEN [node |-> [node EXCEPT !.filepath = InTextures(basename(img_path))],
                        err |-> "none"]
                  ELSE [node |-> node, err |-> "AttributeError"]
             ELSE LET fixed == basename(ApplyReplacements(img_path, FILE_REPLACEMENTS))
                  IN  IF ~Exists(fixed)
                      THEN [node |-> node, err |-> "FileNotFoundError"]
                      ELSE IF node.hasImage
                      THEN [node |-> [node EXCEPT !.filepath = InTextures(fixed)],
                            err |-> "none"]
                      ELSE [node |-> node, err |-> "AttributeError"]

\* the place of the first node on which the loop raises, 0 when it does not
FixFailure(nodes) ==
    LET bad == { i \in 1..Len(nodes) : FixNode(nodes[i]).err # "none" }
    IN  IF bad = {} THEN 0 ELSE CHOOSE i \in bad : \A j \in bad : i <= j

InitFix ==
    /\ fx_nodes \in UNION { [1..n -> FxNodeKinds] : n \in 1..MaxNodes }
    /\ fx_nodes0 = fx_nodes
    /\ textures \in SUBSET FxFiles
    /\ fx_exported = FALSE
    /\ errF = "none"
    /\ pcF = "start"
    \* the track combining is idle
    /\ path = "idle"
    /\ charBones = {}
    /\ charScale = 1
    /\ tracks = <<>>
    /\ pc = "idle"
    /\ result = "none"
    /\ clip = NoClip
    /\ actionName = OrigActionName
    /\ nClips = 0
    /\ seenArm = FALSE
    \* the material deduplication is idle
    /\ mats = <<>>
    /\ objs = <<>>
    /\ mats0 = <<>>
    /\ objs0 = <<>>
    /\ pcM = "idle"
    \* the image deduplication is idle
    /\ flow = "idle"
    /\ imgs = <<>>
    /\ imats = <<>>
    /\ imgs0 = <<>>
    /\ imats0 = <<>>
    /\ pcI = "idle"
    /\ errI = "none"
    \* the retargeting is idle
    /\ source_arm = [bones |-> {}]
    /\ target_arm = [bones |-> {}]
    /\ frame_start = 0
    /\ frame_end = 0
    /\ frame = 0
    /\ common_bones = {}
    /\ deltas = <<>>
    /\ keyframes = <<>>
    /\ pcR = "idle"
    /\ source_arm2 = [bones |-> {}]
    /\ deltas2 = <<>>
    /\ keyframes2 = <<>>
    \* the batch driver is idle
    /\ driver = "idle"
    /\ units = <<>>
    /\ idx = 0
    /\ scene = {}
    /\ exported = <<>>
    /\ skipped_files = <<>>
    /\ summary = <<>>
    /\ errB = "none"
    /\ pcB = "idle"
    /\ steps = <<>>
    \* the bone comparison is idle
    /\ bones_fbx_a = <<>>
    /\ bones_fbx_b = <<>>
    /\ missing_in_fbx_a = {}
    /\ missing_in_fbx_b = {}
    /\ printed = {}
    /\ pcC = "idle"
    \* the T-pose test is idle
    /\ char_collection = <<>>
    /\ deviation_threshold = 0
    /\ fix = FALSE
    /\ any_deviation = FALSE
    /\ tp_result = "none"
    /\ pcT = "idle"
    \* no unit is being imported
    /\ root_fn = "idle"
    /\ imported_objects = <<>>
    /\ root_marked = {}
    /\ root_result = "none"
    /\ pcO = "idle"
    \* no path is being rewritten
    /\ al_path = <<>>
    /\ al_order = <<>>
    /\ al_out = <<>>
    /\ al_prev = <<>>
    /\ pcA = "idle"

\* fix_missing_mesh_materials(mesh, output_path): the nodes before the first
\* that raises are fixed
FixMissingMeshMaterials ==
    /\ pcF = "start"
    /\ LET f == FixFailure(fx_nodes)
       IN  /\ fx_nodes' = [i \in 1..Len(fx_nodes) |->
                            IF f = 0 \/ i < f THEN FixNode(fx_nodes[i]).node
                            ELSE fx_nodes[i]]
           /\ errF' = IF f = 0 THEN "none" ELSE FixNode(fx_nodes[f]).err
           /\ pcF' = IF f = 0 THEN "done" ELSE "failed"
    /\ UNCHANGED <<fx_nodes0, textures, fx_exported>>
    /\ UNCHANGED <<trackVars, matVars, imgVars, retVars, batchVars, cmpVars, tposeVars, rootVars, aliasVars>>

\* export_fbx, which the caller reaches when no exception left the function
ExportFixed ==
    /\ pcF = "done"
    /\ ~fx_exported
    /\ fx_exported' = TRUE
    /\ UNCHANGED <<fx_nodes, fx_nodes0, textures, errF, pcF>>
    /\ UNCHANGED <<trackVars, matVars, imgVars, retVars, batchVars, cmpVars, tposeVars, rootVars, aliasVars>>

(***************************************************************************)
(* Bone comparison: main of fbx-compare-bones.py after the two imports.    *)
(* The rest orientation of a bone is a rotation about one axis; angles are *)
(* in hundredths of a degree. The two bones of a name turn about the same  *)
(* axis, so that the rotation difference is the difference of the angles.  *)
(***************************************************************************)
\* THRESHOLD_DEG = 0.01, in hundredths of a degree
THRESHOLD_DEG == 1

Axes   == {"X", "Y", "Z"}
Angles == {0, 1, 2, 500}

Abs(x) == IF x < 0 THEN -x ELSE x

\* q_anim.rotation_difference(q_char).to_euler('XYZ'), in hundredths of a
\* degree: the rotation that takes the orientation of b_anim to that of b_char
delta_euler(b_char, b_anim) ==
    LET d == b_char.angle - b_anim.angle
    IN  << IF b_char.axis = "X" THEN d ELSE 0,
           IF b_char.axis = "Y" THEN d ELSE 0,
           IF b_char.axis = "Z" THEN d ELSE 0 >>

\* abs(dx) < THRESHOLD_DEG and abs(dy) < THRESHOLD_DEG and abs(dz) < THRESHOLD_DEG
nearly_identical(d) ==
    Abs(d[1]) < THRESHOLD_DEG /\ Abs(d[2]) < THRESHOLD_DEG /\ Abs(d[3]) < THRESHOLD_DEG

\* set(bones_fbx_b.keys()) - set(bones_fbx_a.keys())
MissingInFbxA(fbx_a, fbx_b) == (DOMAIN fbx_b) \ (DOMAIN fbx_a)

\* a difference that keeps the names of both skeletons
AllOfFbxA(fbx_a, fbx_b) == DOMAIN fbx_a

\* set(bones_fbx_a.keys()) - set(bones_fbx_b.keys())
MissingInFbxB(fbx_a, fbx_b) == (DOMAIN fbx_a) \ (DOMAIN fbx_b)

\* set(bones_fbx_a.keys()) & set(bones_fbx_b.keys())
CommonBonesOf(fbx_a, fbx_b) == (DOMAIN fbx_a) \cap (DOMAIN fbx_b)

\* the bone names of the two armatures
CompareBoneNames == BoneNames \cup {"Head"}

InitCompare ==
    /\ \E A \in SUBSET CompareBoneNames, B \in SUBSET CompareBoneNames :
        \E axis \in [CompareBoneNames -> Axes] :
          \E angA \in [A -> Angles], angB \in [B -> Angles] :
            /\ bones_fbx_a = [n \in A |-> [axis |-> axis[n], angle |-> angA[n]]]
            /\ bones_fbx_b = [n \in B |-> [axis |-> axis[n], angle |-> angB[n]]]
    /\ missing_in_fbx_a = {}
    /\ missing_in_fbx_b = {}
    /\ printed = {}
    /\ pcC = "start"
    \* the track combining is idle
    /\ path = "idle"
    /\ charBones = {}
    /\ charScale = 1
    /\ tracks = <<>>
    /\ pc = "idle"
    /\ result = "none"
    /\ clip = NoClip
    /\ actionName = OrigActionName
    /\ nClips = 0
    /\ seenArm = FALSE
    \* the material deduplication is idle
    /\ mats = <<>>
    /\ objs = <<>>
    /\ mats0 = <<>>
    /\ objs0 = <<>>
    /\ pcM = "idle"
    \* the image deduplication is idle
    /\ flow = "idle"
    /\ imgs = <<>>
    /\ imats = <<>>
    /\ imgs0 = <<>>
    /\ imats0 = <<>>
    /\ pcI = "idle"
    /\ errI = "none"
    \* the retargeting is idle
    /\ source_arm = [bones |-> {}]
    /\ target_arm = [bones |-> {}]
    /\ frame_start = 0
    /\ frame_end = 0
    /\ frame = 0
    /\ common_bones = {}
    /\ deltas = <<>>
    /\ keyframes = <<>>
    /\ pcR = "idle"
    /\ source_arm2 = [bones |-> {}]
    /\ deltas2 = <<>>
    /\ keyframes2 = <<>>
    \* the batch driver is idle
    /\ driver = "idle"
    /\ units = <<>>
    /\ idx = 0
    /\ scene = {}
    /\ exported = <<>>
    /\ skipped_files = <<>>
    /\ summary = <<>>
    /\ errB = "none"
    /\ pcB = "idle"
    /\ steps = <<>>
    \* the fixing of texture references is idle
    /\ fx_nodes = <<>>
    /\ fx_nodes0 = <<>>
    /\ textures = {}
    /\ fx_exported = FALSE
    /\ errF = "none"
    /\ pcF = "idle"
    \* the T-pose test is idle
    /\ char_collection = <<>>
    /\ deviation_threshold = 0
    /\ fix = FALSE
    /\ any_deviation = FALSE
    /\ tp_result = "none"
    /\ pcT = "idle"
    \* no unit is being imported
    /\ root_fn = "idle"
    /\ imported_objects = <<>>
    /\ root_marked = {}
    /\ root_result = "none"
    /\ pcO = "idle"
    \* no path is being rewritten
    /\ al_path = <<>>
    /\ al_order = <<>>
    /\ al_out = <<>>
    /\ al_prev = <<>>
    /\ pcA = "idle"

\* main, from "Compare bone names" on
CompareBones ==
    /\ pcC = "start"
    /\ missing_in_fbx_a' = MissingInFbxA(bones_fbx_a, bones_fbx_b)
    /\ missing_in_fbx_b' = MissingInFbxB(bones_fbx_a, bones_fbx_b)
    /\ printed' =
         { [name |-> n, delta |-> delta_euler(bones_fbx_a[n], bones_fbx_b[n])] :
             n \in { c \in CommonBonesOf(bones_fbx_a, bones_fbx_b) :
                       ~nearly_identical(delta_euler(bones_fbx_a[c], bones_fbx_b[c])) } }
    /\ pcC' = "done"
    /\ UNCHANGED <<bones_fbx_a, bones_fbx_b>>
    /\ UNCHANGED <<trackVars, matVars, imgVars, retVars, batchVars, fixVars, tposeVars, rootVars, aliasVars>>

(***************************************************************************)
(* T-pose test: is_in_t_pose of mixamo-add-animations-to-character.py.     *)
(* A pose bone is absent, or has a length (0 when tail = head) and a       *)
(* direction, given by its angle from +z in whole degrees.                 *)
(***************************************************************************)
MaxObjects == 2

\* deviation_threshold=1.0
DefaultDeviationThreshold == 1

Sides == {"Left", "Right"}

\* f"mixamorig:{side}Arm"
bone_key(side) == IF side = "Left" THEN "mixamorig:LeftArm" ELSE "mixamorig:RightArm"

BoneKeys == { bone_key(side) : side \in Sides }

NoBone == [length |-> -1, theta |-> 0]

Thetas == {88, 89, 90, 93}

PoseBones ==
    {NoBone} \cup {[length |-> 0, theta |-> 0]} \cup
    { [length |-> 1, theta |-> t] : t \in Thetas }

TPoseObjects ==
    {[type |-> "MESH", bones |-> [k \in BoneKeys |-> NoBone]]} \cup
    { [type |-> "ARMATURE", bones |-> b] : b \in [BoneKeys -> PoseBones] }

\* math.degrees(math.acos(abs(vecn.z)))
vertical_angle(bone) == IF bone.theta <= 90 THEN bone.theta ELSE 180 - bone.theta

\* a test that also counts a deviation equal to the threshold
exceeds_inclusive(deviation, threshold) == Abs(deviation) >= threshold

\* abs(deviation) > deviation_threshold
exceeds(deviation, threshold) == Abs(deviation) > threshold

\* a test of one bone for which an armature without the bone deviates
BoneDeviatesWhenMissing(obj, key, threshold) ==
    LET bone == obj.bones[key]
    IN  \/ bone = NoBone
        \/ /\ bone.length # 0
           /\ exceeds(90 - vertical_angle(bone), threshold)

\* the body of the loop over the sides for one bone: TRUE when the bone sets
\* any_deviation
BoneDeviates(obj, key, threshold) ==
    LET bone == obj.bones[key]
    IN  /\ bone # NoBone
        /\ bone.length # 0
        /\ exceeds(90 - vertical_angle(bone), threshold)

InitTPose ==
    /\ \E n \in 0..MaxObjects : char_collection \in [1..n -> TPoseObjects]
    /\ deviation_threshold \in {DefaultDeviationThreshold, 2}
    /\ fix \in BOOLEAN
    /\ any_deviation = FALSE
    /\ tp_result = "none"
    /\ pcT = "start"
    \* the track combining is idle
    /\ path = "idle"
    /\ charBones = {}
    /\ charScale = 1
    /\ tracks = <<>>
    /\ pc = "idle"
    /\ result = "none"
    /\ clip = NoClip
    /\ actionName = OrigActionName
    /\ nClips = 0
    /\ seenArm = FALSE
    \* the material deduplication is idle
    /\ mats = <<>>
    /\ objs = <<>>
    /\ mats0 = <<>>
    /\ objs0 = <<>>
    /\ pcM = "idle"
    \* the image deduplication is idle
    /\ flow = "idle"
    /\ imgs = <<>>
    /\ imats = <<>>
    /\ imgs0 = <<>>
    /\ imats0 = <<>>
    /\ pcI = "idle"
    /\ errI = "none"
    \* the retargeting is idle
    /\ source_arm = [bones |-> {}]
    /\ target_arm = [bones |-> {}]
    /\ frame_start = 0
    /\ frame_end = 0
    /\ frame = 0
    /\ common_bones = {}
    /\ deltas = <<>>
    /\ keyframes = <<>>
    /\ pcR = "idle"
    /\ source_arm2 = [bones |-> {}]
    /\ deltas2 = <<>>
    /\ keyframes2 = <<>>
    \* the batch driver is idle
    /\ driver = "idle"
    /\ units = <<>>
    /\ idx = 0
    /\ scene = {}
    /\ exported = <<>>
    /\ skipped_files = <<>>
    /\ summary = <<>>
    /\ errB = "none"
    /\ pcB = "idle"
    /\ steps = <<>>
    \* the fixing of texture references is idle
    /\ fx_nodes = <<>>
    /\ fx_nodes0 = <<>>
    /\ textures = {}
    /\ fx_exported = FALSE
    /\ errF = "none"
    /\ pcF = "idle"
    \* the bone comparison is idle
    /\ bones_fbx_a = <<>>
    /\ bones_fbx_b = <<>>
    /\ missing_in_fbx_a = {}
    /\ missing_in_fbx_b = {}
    /\ printed = {}
    /\ pcC = "idle"
    \* no unit is being imported
    /\ root_fn = "idle"
    /\ imported_objects = <<>>
    /\ root_marked = {}
    /\ root_result = "none"
    /\ pcO = "idle"
    \* no path is being rewritten
    /\ al_path = <<>>
    /\ al_order = <<>>
    /\ al_out = <<>>
    /\ al_prev = <<>>
    /\ pcA = "idle"

IsInTPose ==
    /\ pcT = "start"
    /\ any_deviation' =
         \E i \in 1..Len(char_collection) :
            /\ char_collection[i].type = "ARMATURE"
            /\ \E side \in Sides :
                 BoneDeviates(char_collection[i], bone_key(side), deviation_threshold)
    /\ tp_result' = IF any_deviation' THEN "False" ELSE "True"
    /\ pcT' = "done"
    /\ UNCHANGED <<char_collection, deviation_threshold, fix>>
    /\ UNCHANGED <<trackVars, matVars, imgVars, retVars, batchVars, fixVars, cmpVars, rootVars, aliasVars>>

(***************************************************************************)
(* The root object of an imported unit: get_root_object of                 *)
(* synty-scifi-city.py and get_character of                                *)
(* mixamo-add-animations-to-character.py. An import makes a set of objects *)
(* whose parent links form a forest.                                       *)
(***************************************************************************)
MaxImported == 3

ObjectIds == 1..MaxImported

NoParent == 0

RECURSIVE ReachesRoot(_, _, _)
ReachesRoot(parent, o, left) ==
    IF parent[o] = NoParent THEN TRUE
    ELSE IF left = 0 THEN FALSE
    ELSE ReachesRoot(parent, parent[o], left - 1)

\* the parent links an import can make: every object has no parent or another
\* imported object as its parent, and no object is its own ancestor
Forests ==
    UNION { { p \in [S -> S \cup {NoParent}] :
                \A o \in S : ReachesRoot(p, o, MaxImported) } :
            S \in SUBSET ObjectIds }

\* [obj for obj in objects if obj.parent is None]
find_root_objects(objects) == { o \in DOMAIN objects : objects[o] = NoParent }

\* len(roots) != 1 raises
single_root(objects) == Cardinality(find_root_objects(objects)) = 1

InitRoot ==
    /\ root_fn \in {"get_root_object", "get_character"}
    /\ imported_objects \in Forests
    /\ root_marked = {}
    /\ root_result = "none"
    /\ pcO = "start"
    \* the track combining is idle
    /\ path = "idle"
    /\ charBones = {}
    /\ charScale = 1
    /\ tracks = <<>>
    /\ pc = "idle"
    /\ result = "none"
    /\ clip = NoClip
    /\ actionName = OrigActionName
    /\ nClips = 0
    /\ seenArm = FALSE
    \* the material deduplication is idle
    /\ mats = <<>>
    /\ objs = <<>>
    /\ mats0 = <<>>
    /\ objs0 = <<>>
    /\ pcM = "idle"
    \* the image deduplication is idle
    /\ flow = "idle"
    /\ imgs = <<>>
    /\ imats = <<>>
    /\ imgs0 = <<>>
    /\ imats0 = <<>>
    /\ pcI = "idle"
    /\ errI = "none"
    \* the retargeting is idle
    /\ source_arm = [bones |-> {}]
    /\ target_arm = [bones |-> {}]
    /\ frame_start = 0
    /\ frame_end = 0
    /\ frame = 0
    /\ common_bones = {}
    /\ deltas = <<>>
    /\ keyframes = <<>>
    /\ pcR = "idle"
    /\ source_arm2 = [bones |-> {}]
    /\ deltas2 = <<>>
    /\ keyframes2 = <<>>
    \* the batch driver is idle
    /\ driver = "idle"
    /\ units = <<>>
    /\ idx = 0
    /\ scene = {}
    /\ exported = <<>>
    /\ skipped_files = <<>>
    /\ summary = <<>>
    /\ errB = "none"
    /\ pcB = "idle"
    /\ steps = <<>>
    \* the fixing of texture references is idle
    /\ fx_nodes = <<>>
    /\ fx_nodes0 = <<>>
    /\ textures = {}
    /\ fx_exported = FALSE
    /\ errF = "none"
    /\ pcF = "idle"
    \* the bone comparison is idle
    /\ bones_fbx_a = <<>>
    /\ bones_fbx_b = <<>>
    /\ missing_in_fbx_a = {}
    /\ missing_in_fbx_b = {}
    /\ printed = {}
    /\ pcC = "idle"
    \* the T-pose test is idle
    /\ char_collection = <<>>
    /\ deviation_threshold = 0
    /\ fix = FALSE
    /\ any_deviation = FALSE
    /\ tp_result = "none"
    /\ pcT = "idle"
    \* no path is being rewritten
    /\ al_path = <<>>
    /\ al_order = <<>>
    /\ al_out = <<>>
    /\ al_prev = <<>>
    /\ pcA = "idle"

\* get_root_object(bpy.context.selected_objects) after the import
GetRootObject ==
    /\ pcO = "start"
    /\ root_fn = "get_root_object"
    /\ root_result' = IF single_root(imported_objects) THEN "returned" ELSE "raise"
    /\ pcO' = "done"
    /\ UNCHANGED <<root_fn, imported_objects, root_marked>>
    /\ UNCHANGED <<trackVars, matVars, imgVars, retVars, batchVars, fixVars, cmpVars, tposeVars, aliasVars>>

\* get_character: the loop over the imported objects tags an object, moves it
\* to the collection and then tests the roots, so the test is made once per
\* object and never for an import without objects; the loop takes the
\* objects of the set in any order
GetCharacter ==
    /\ pcO = "start"
    /\ root_fn = "get_character"
    /\ \/ /\ imported_objects = <<>>
          /\ root_marked' = {}
          /\ root_result' = "returned"
       \/ /\ imported_objects # <<>>
          /\ single_root(imported_objects)
          /\ root_marked' = DOMAIN imported_objects
          /\ root_result' = "returned"
       \/ /\ imported_objects # <<>>
          /\ ~single_root(imported_objects)
          /\ \E first \in DOMAIN imported_objects : root_marked' = {first}
          /\ root_result' = "raise"
    /\ pcO' = "done"
    /\ UNCHANGED <<root_fn, imported_objects>>
    /\ UNCHANGED <<trackVars, matVars, imgVars, retVars, batchVars, fixVars, cmpVars, tposeVars, aliasVars>>

(***************************************************************************)
(* The alias rewriting of fix_missing_mesh_materials with the table of     *)
(* synty-scifi-city.py: the loop over FILE_REPLACEMENTS.items() for one    *)
(* path, made once and then again on its result, with the entries of the   *)
(* table taken in one of several orders.                                   *)
(***************************************************************************)
\* the table with the name for "Neon_Animation.psd" replaced by a name that
\* is itself an old name of the table
ChainedReplacements ==
    << [old_name |->
          <<"P", "o", "l", "y", "g", "o", "n", "S", "c", "i", "f", "i", "_", "T",
            "e", "x", "t", "u", "r", "e", ".", "p", "s", "d">>,
        new_name |->
          <<"P", "o", "l", "y", "g", "o", "n", "S", "c", "i", "f", "i", "_", "0",
            "1", "_", "A", ".", "p", "n", "g">>],
       [old_name |->
          <<"B", "u", "i", "l", "d", "i", "n", "g", "_", "W", "i", "n", "d", "o",
            "w", "_", "E", "m", "i", "s", "s", "i", "v", "e", ".", "p", "s", "d">>,
        new_name |->
          <<"P", "o", "l", "y", "g", "o", "n", "S", "c", "i", "f", "i", "_", "B",
            "a", "c", "k", "g", "r", "o", "u", "n", "d", "_", "B", "u", "i", "l",
            "d", "i", "n", "g", "_", "E", "m", "i", "s", "s", "i", "v", "e", ".",
            "p", "n", "g">>],
       [old_name |->
          <<"P", "o", "l", "y", "g", "o", "n", "S", "c", "i", "f", "i", "_", ".",
            "p", "s", "d">>,
        new_name |->
          <<"P", "o", "l", "y", "g", "o", "n", "S", "c", "i", "f", "i", "_", "0",
            "1", "_", "A", ".", "p", "n", "g">>],
       [old_name |->
          <<"B", "i", "l", "l", "b", "o", "a", "r", "d", "s", "G", "r", "a", "f",
            "f", "i", "t", "i", "_", "0", "1", ".", "p", "s", "d">>,
        new_name |->
          <<"B", "i", "l", "l", "b", "o", "a", "r", "d", "s", ".", "p", "n", "g">>],
       [old_name |->
          <<"P", "o", "l", "y", "g", "o", "n", "C", "i", "t", "y", "_", "R", "o",
            "a", "d", "_", "0", "1", ".", "p", "n", "g">>,
        new_name |->
          <<"P", "o", "l", "y", "g", "o", "n", "S", "c", "i", "F", "i", "_", "R",
            "o", "a", "d", "_", "0", "1", ".", "p", "n", "g">>],
       [old_name |->
          <<"P", "o", "l", "y", "g", "o", "n", "C", "i", "t", "y", "_", "T", "e",
            "x", "t", "u", "r", "e", "_", "0", "1", "_", "A", ".", "p", "n", "g">>,
        new_name |->
          <<"P", "o", "l", "y", "g", "o", "n", "S", "c", "i", "f", "i", "_", "0",
            "1", "_", "A", ".", "p", "n", "g">>],
       [old_name |->
          <<"S", "i", "g", "n", "s", "_", "E", "m", "i", "s", "s", "i", "o", "n",
            ".", "p", "s", "d">>,
        new_name |->
          <<"P", "o", "l", "y", "g", "o", "n", "S", "c", "i", "f", "i", "_", "E",
            "m", "i", "s", "s", "i", "v", "e", "_", "0", "1", ".", "p", "n", "g">>],
       [old_name |->
          <<"N", "e", "o", "n", "_", "A", "n", "i", "m", "a", "t", "i", "o", "n",
            ".", "p", "s", "d">>,
        new_name |->
          <<"B", "i", "l", "l", "b", "o", "a", "r", "d", "s", "G", "r", "a", "f",
            "f", "i", "t", "i", "_", "0", "1", ".", "p", "s", "d">>],
       [old_name |->
          <<"P", "o", "l", "y", "g", "o", "n", "S", "c", "i", "f", "i", "_", "T",
            "e", "x", "t", "u", "r", "e", "_", "M", "i", "k", "e", ".", "p", "s",
            "d">>,
        new_name |->
          <<"P", "o", "l", "y", "g", "o", "n", "S", "c", "i", "f", "i", "_", "0",
            "1", "_", "A", ".", "p", "n", "g">>],
       [old_name |->
          <<"P", "o", "l", "y", "g", "o", "n", "S", "c", "i", "F", "i", "C", "i",
            "t", "y", "_", "T", "e", "x", "t", "u", "r", "e", "_", "0", "1", "_",
            "A", ".", "p", "n", "g">>,
        new_name |->
          <<"P", "o", "l", "y", "g", "o", "n", "S", "c", "i", "f", "i", "_", "0",
            "1", "_", "A", ".", "p", "n", "g">>] >>

\* FILE_REPLACEMENTS as the script has it, in the order of the dictionary
ConfiguredReplacements ==
    << [old_name |->
          <<"P", "o", "l", "y", "g", "o", "n", "S", "c", "i", "f", "i", "_", "T",
            "e", "x", "t", "u", "r", "e", ".", "p", "s", "d">>,
        new_name |->
          <<"P", "o", "l", "y", "g", "o", "n", "S", "c", "i", "f", "i", "_", "0",
            "1", "_", "A", ".", "p", "n", "g">>],
       [old_name |->
          <<"B", "u", "i", "l", "d", "i", "n", "g", "_", "W", "i", "n", "d", "o",
            "w", "_", "E", "m", "i", "s", "s", "i", "v", "e", ".", "p", "s", "d">>,
        new_name |->
          <<"P", "o", "l", "y", "g", "o", "n", "S", "c", "i", "f", "i", "_", "B",
            "a", "c", "k", "g", "r", "o", "u", "n", "d", "_", "B", "u", "i", "l",
            "d", "i", "n", "g", "_", "E", "m", "i", "s", "s", "i", "v", "e", ".",
            "p", "n", "g">>],
       [old_name |->
          <<"P", "o", "l", "y", "g", "o", "n", "S", "c", "i", "f", "i", "_", ".",
            "p", "s", "d">>,
        new_name |->
          <<"P", "o", "l", "y", "g", "o", "n", "S", "c", "i", "f", "i", "_", "0",
            "1", "_", "A", ".", "p", "n", "g">>],
       [old_name |->
          <<"B", "i", "l", "l", "b", "o", "a", "r", "d", "s", "G", "r", "a", "f",
            "f", "i", "t", "i", "_", "0", "1", ".", "p", "s", "d">>,
        new_name |->
          <<"B", "i", "l", "l", "b", "o", "a", "r", "d", "s", ".", "p", "n", "g">>],
       [old_name |->
          <<"P", "o", "l", "y", "g", "o", "n", "C", "i", "t", "y", "_", "R", "o",
            "a", "d", "_", "0", "1", ".", "p", "n", "g">>,
        new_name |->
          <<"P", "o", "l", "y", "g", "o", "n", "S", "c", "i", "F", "i", "_", "R",
            "o", "a", "d", "_", "0", "1", ".", "p", "n", "g">>],
       [old_name |->
          <<"P", "o", "l", "y", "g", "o", "n", "C", "i", "t", "y", "_", "T", "e",
            "x", "t", "u", "r", "e", "_", "0", "1", "_", "A", ".", "p", "n", "g">>,
        new_name |->
          <<"P", "o", "l", "y", "g", "o", "n", "S", "c", "i", "f", "i", "_", "0",
            "1", "_", "A", ".", "p", "n", "g">>],
       [old_name |->
          <<"S", "i", "g", "n", "s", "_", "E", "m", "i", "s", "s", "i", "o", "n",
            ".", "p", "s", "d">>,
        new_name |->
          <<"P", "o", "l", "y", "g", "o", "n", "S", "c", "i", "f", "i", "_", "E",
            "m", "i", "s", "s", "i", "v", "e", "_", "0", "1", ".", "p", "n", "g">>],
       [old_name |->
          <<"N", "e", "o", "n", "_", "A", "n", "i", "m", "a", "t", "i", "o", "n",
            ".", "p", "s", "d">>,
        new_name |->
          <<"B", "i", "l", "l", "b", "o", "a", "r", "d", "s", ".", "p", "n", "g">>],
       [old_name |->
          <<"P", "o", "l", "y", "g", "o", "n", "S", "c", "i", "f", "i", "_", "T",
            "e", "x", "t", "u", "r", "e", "_", "M", "i", "k", "e", ".", "p", "s",
            "d">>,
        new_name |->
          <<"P", "o", "l", "y", "g", "o", "n", "S", "c", "i", "f", "i", "_", "0",
            "1", "_", "A", ".", "p", "n", "g">>],
       [old_name |->
          <<"P", "o", "l", "y", "g", "o", "n", "S", "c", "i", "F", "i", "C", "i",
            "t", "y", "_", "T", "e", "x", "t", "u", "r", "e", "_", "0", "1", "_",
            "A", ".", "p", "n", "g">>,
        new_name |->
          <<"P", "o", "l", "y", "g", "o", "n", "S", "c", "i", "f", "i", "_", "0",
            "1", "_", "A", ".", "p", "n", "g">>] >>

TablePlaces == 1..Len(ConfiguredReplacements)

\* the orders in which the entries are taken: the order of the dictionary
\* started at any entry, forwards and backwards
TableOrders ==
    { [k \in TablePlaces |-> ((r + k - 2) % Len(ConfiguredReplacements)) + 1] :
        r \in TablePlaces }
    \cup { [k \in TablePlaces |->
               ((r - k + Len(ConfiguredReplacements)) % Len(ConfiguredReplacements)) + 1] :
            r \in TablePlaces }

\* the entries of the table in the order o
Reordered(o) == [k \in 1..Len(o) |-> ConfiguredReplacements[o[k]]]

OldNames == { ConfiguredReplacements[i].old_name : i \in TablePlaces }
NewNames == { ConfiguredReplacements[i].new_name : i \in TablePlaces }

\* the paths of the image nodes: an old name, a new name, a name the table
\* does not know, or two old names in one path, below a directory or not
AliasPaths ==
    { d \o n : d \in { <<>>, <<"d", "/">> },
               n \in OldNames \cup NewNames \cup { <<"x", ".", "p", "n", "g">> }
                     \cup { ConfiguredReplacements[i].old_name \o <<"/">>
                              \o ConfiguredReplacements[(i % Len(ConfiguredReplacements)) + 1].old_name :
                            i \in TablePlaces }
                     \cup { ConfiguredReplacements[(i % Len(ConfiguredReplacements)) + 1].old_name
                              \o <<"/">> \o ConfiguredReplacements[i].old_name :
                            i \in TablePlaces } }

InitAlias ==
    /\ al_path \in AliasPaths
    /\ al_order \in TableOrders
    /\ al_out = al_path
    /\ al_prev = al_path
    /\ pcA = "start"
    \* the track combining is idle
    /\ path = "idle"
    /\ charBones = {}
    /\ charScale = 1
    /\ tracks = <<>>
    /\ pc = "idle"
    /\ result = "none"
    /\ clip = NoClip
    /\ actionName = OrigActionName
    /\ nClips = 0
    /\ seenArm = FALSE
    \* the material deduplication is idle
    /\ mats = <<>>
    /\ objs = <<>>
    /\ mats0 = <<>>
    /\ objs0 = <<>>
    /\ pcM = "idle"
    \* the image deduplication is idle
    /\ flow = "idle"
    /\ imgs = <<>>
    /\ imats = <<>>
    /\ imgs0 = <<>>
    /\ imats0 = <<>>
    /\ pcI = "idle"
    /\ errI = "none"
    \* the retargeting is idle
    /\ source_arm = [bones |-> {}]
    /\ target_arm = [bones |-> {}]
    /\ frame_start = 0
    /\ frame_end = 0
    /\ frame = 0
    /\ common_bones = {}
    /\ deltas = <<>>
    /\ keyframes = <<>>
    /\ pcR = "idle"
    /\ source_arm2 = [bones |-> {}]
    /\ deltas2 = <<>>
    /\ keyframes2 = <<>>
    \* the batch driver is idle
    /\ driver = "idle"
    /\ units = <<>>
    /\ idx = 0
    /\ scene = {}
    /\ exported = <<>>
    /\ skipped_files = <<>>
    /\ summary = <<>>
    /\ errB = "none"
    /\ pcB = "idle"
    /\ steps = <<>>
    \* the fixing of texture references is idle
    /\ fx_nodes = <<>>
    /\ fx_nodes0 = <<>>
    /\ textures = {}
    /\ fx_exported = FALSE
    /\ errF = "none"
    /\ pcF = "idle"
    \* the bone comparison is idle
    /\ bones_fbx_a = <<>>
    /\ bones_fbx_b = <<>>
    /\ missing_in_fbx_a = {}
    /\ missing_in_fbx_b = {}
    /\ printed = {}
    /\ pcC = "idle"
    \* the T-pose test is idle
    /\ char_collection = <<>>
    /\ deviation_threshold = 0
    /\ fix = FALSE
    /\ any_deviation = FALSE
    /\ tp_result = "none"
    /\ pcT = "idle"
    \* no unit is being imported
    /\ root_fn = "idle"
    /\ imported_objects = <<>>
    /\ root_marked = {}
    /\ root_result = "none"
    /\ pcO = "idle"

\* the loop over the table for the path of the node
RewritePath ==
    /\ pcA = "start"
    /\ al_prev' = al_out
    /\ al_out' = ApplyReplacements(al_out, Reordered(al_order))
    /\ pcA' = "once"
    /\ UNCHANGED <<al_path, al_order>>
    /\ UNCHANGED <<trackVars, matVars, imgVars, retVars, batchVars, fixVars, cmpVars, tposeVars, rootVars>>

\* the loop over the table for a path that was rewritten before
RewriteAgain ==
    /\ pcA = "once"
    /\ al_prev' = al_out
    /\ al_out' = ApplyReplacements(al_out, Reordered(al_order))
    /\ pcA' = "twice"
    /\ UNCHANGED <<al_path, al_order>>
    /\ UNCHANGED <<trackVars, matVars, imgVars, retVars, batchVars, fixVars, cmpVars, tposeVars, rootVars>>

NextTracks ==
    \/ \E c \in Clips : AddClipCharacter(c)
    \/ \E c \in Clips : AddClipCombine(c)
    \/ FinishTracks

SpecTracks == InitTracks /\ [][NextTracks]_vars

SpecMaterials == InitMaterials /\ [][NextMaterials]_vars

NextImages ==
    \/ DeduplicateImages
    \/ NormalizeAndDeduplicateImages

SpecImages == InitImages /\ [][NextImages]_vars

NextRetarget ==
    \/ RetargetBegin
    \/ RetargetFrame
    \/ RetargetEnd

SpecRetarget == InitRetarget /\ [][NextRetarget]_vars

NextBatch ==
    \/ UnitSkip
    \/ UnitBegin
    \/ UnitImport
    \/ UnitProcess
    \/ BatchEnd

SpecBatch == InitBatch /\ [][NextBatch]_vars

NextFix ==
    \/ FixMissingMeshMaterials
    \/ ExportFixed

SpecFix == InitFix /\ [][NextFix]_vars

NextCompare == CompareBones

SpecCompare == InitCompare /\ [][NextCompare]_vars

NextTPose == IsInTPose

SpecTPose == InitTPose /\ [][NextTPose]_vars

NextRoot == GetRootObject \/ GetCharacter

SpecRoot == InitRoot /\ [][NextRoot]_vars

NextAlias == RewritePath \/ RewriteAgain

SpecAlias == InitAlias /\ [][NextAlias]_vars

(***************************************************************************)
(* Claims about the track combining (checked under SpecTracks).            *)
(***************************************************************************)

\* C1: after any sequence of clip additions, by either combining path, no two
\* tracks of the target have names that are equal when compared
\* case-insensitively.
C1_NoCaseInsensitiveDuplicates ==
    \A i, j \in 1..Len(tracks) :
        i # j => Lower(tracks[i].name) # Lower(tracks[j].name)

\* C2: track addition is atomic: when adding a clip fails, the track list is
\* what it was before the attempt and the clip's action keeps its name.
C2_FailedAddChangesNothing ==
    [][(nClips' = nClips + 1 /\ pc' = "failed")
          => (tracks' = tracks /\ actionName' = OrigActionName)]_vars

\* C9: an armature clip is rejected with a skeleton mismatch exactly
\* when the target lacks one of the clip's bones; a target that only has extra
\* bones is accepted.
C9_MismatchOnlyWhenTargetLacksBone ==
    (nClips > 0 /\ clip.type = "ARMATURE")
        => ((result = "SkeletonMismatch") <=> (clip.bones \ charBones # {}))

\* C10: a clip whose frame range has start >= end is rejected and never
\* appears as a track of the target, in both combining paths.
C10_InvalidRangeNeverATrack ==
    [][(/\ nClips' = nClips + 1
        /\ clip'.type = "ARMATURE"
        /\ clip'.hasAction
        /\ clip'.frame_range[1] >= clip'.frame_range[2])
          => (pc' = "failed" /\ tracks' = tracks)]_vars

(***************************************************************************)
(* Claims about the material deduplication (checked under SpecMaterials).  *)
(***************************************************************************)
RECURSIVE C5_FirstImage(_)
\* the filepath of the image of the first image-bearing TEX_IMAGE node
C5_FirstImage(nodes) ==
    IF nodes = <<>> THEN NoImage
    ELSE IF Head(nodes).type = "TEX_IMAGE" /\ Head(nodes).image # NoImage
    THEN Head(nodes).image
    ELSE C5_FirstImage(Tail(nodes))

\* the texture key of a material, NoImage when it has none
C5_Key(m) ==
    IF m.hasTree /\ C5_FirstImage(m.nodes) # "" THEN C5_FirstImage(m.nodes) ELSE NoImage

\* the places, in the entry list, of the materials with texture key k
C5_Group(k) == { i \in 1..Len(mats0) : C5_Key(mats0[i]) = k }

\* the place of the material the claim says is retained
C5_Retained(g) ==
    LET plain == { i \in g : mats0[i].suffix = 0 }
        first(S) == CHOOSE i \in S : \A j \in S : i <= j
    IN  IF plain # {} THEN first(plain) ELSE first(g)

C5_Keys == { C5_Key(mats0[i]) : i \in 1..Len(mats0) } \ {NoImage}

C5_MeshSlots == { <<o, i>> \in (1..Len(objs)) \X (1..2) :
                    objs[o].type = "MESH" /\ i <= Len(objs[o].slots) }

\* C5: after deduplicate_materials, of every group of two or more materials
\* with the same texture key exactly one remains, the first without ".NNN"
\* suffix or else the first; every mesh slot that used a member of the group
\* uses the retained material, and no mesh slot uses a removed material.
C5_MaterialDedup ==
    pcM = "done" =>
        /\ \A k \in C5_Keys :
             LET g == C5_Group(k)
                 left == { i \in g : HasMat(mats, mats0[i].id) }
             IN  Cardinality(g) >= 2 =>
                   /\ left = {C5_Retained(g)}
                   /\ \A os \in C5_MeshSlots :
                        (\E i \in g : objs0[os[1]].slots[os[2]] = mats0[i].id)
                          => objs[os[1]].slots[os[2]] = mats0[C5_Retained(g)].id
        /\ \A os \in C5_MeshSlots :
             objs[os[1]].slots[os[2]] # NoMat => HasMat(mats, objs[os[1]].slots[os[2]])

\* a group whose first material is suffixed and whose retained material is a
\* later one, with a mesh slot moved from the first to the retained material
C5_Witness ==
    /\ pcM = "done"
    /\ \E k \in C5_Keys :
         LET g == C5_Group(k)
         IN  /\ Cardinality(g) >= 2
             /\ 1 \in g
             /\ C5_Retained(g) # 1
             /\ objs0[1].slots[1] = mats0[1].id
             /\ objs[1].slots[1] = mats0[C5_Retained(g)].id
             /\ Len(mats) < Len(mats0)

(***************************************************************************)
(* Image deduplication claims, checked under SpecImages.                   *)
(***************************************************************************)
\* content key of an image: its normalised absolute path, or its name when
\* it has no path
C3_Key(img) ==
    IF img.filepath = <<>> THEN ImgName(img)
    ELSE IF Len(img.filepath) >= 2 /\ SubSeq(img.filepath, 1, 2) = <<"/", "/">>
         THEN SubSeq(img.filepath, 3, Len(img.filepath))
         ELSE img.filepath

\* the ids of the images that had content key k when the pass was entered
C3_Group(k) == { imgs0[i].id : i \in { j \in 1..Len(imgs0) : C3_Key(imgs0[j]) = k } }

\* the content keys shared by two images or more when the pass was entered
C3_SharedKeys ==
    { C3_Key(imgs0[i]) : i \in { j \in 1..Len(imgs0) :
        \E l \in 1..Len(imgs0) : l # j /\ C3_Key(imgs0[l]) = C3_Key(imgs0[j]) } }

C3_Remaining == { imgs[i].id : i \in 1..Len(imgs) }

C4_Retained(g) ==
    LET at    == { i \in 1..Len(imgs0) : imgs0[i].id \in g }
        plain == { i \in at : imgs0[i].suffix = 0 }
        first(S) == CHOOSE i \in S : \A j \in S : i <= j
    IN  imgs0[IF plain # {} THEN first(plain) ELSE first(at)].id

\* C4: of every group of more than one image the image that is retained is the
\* member whose name carries no ".NNN" suffix when the group has such a
\* member, and only otherwise the member met first in the order of the input.
C4_RetainedIsUnsuffixed ==
    pcI = "done" =>
        \A k \in C3_SharedKeys : C4_Retained(C3_Group(k)) \in C3_Remaining

(***************************************************************************)
(* Retargeting claims, checked under SpecRetarget.                         *)
(***************************************************************************)
\* the target is an identical copy of the source: the same bone names, the
\* same rest transforms and the same object world transform
C6_IdenticalCopy ==
    /\ target_arm.bones = source_arm.bones
    /\ target_arm.matrix_local = source_arm.matrix_local
    /\ target_arm.matrix_world = source_arm.matrix_world

\* C6: retargeting onto an identical copy of the skeleton writes, at the first
\* frame of the range, a target pose equal to the source pose of every bone,
\* whatever the object world transform of the two armatures is.
C6_IdenticalCopyKeepsPose ==
    (pcR = "done" /\ C6_IdenticalCopy) =>
        \A bn \in source_arm.bones :
            keyframes[bn][frame_start] = <<source_arm.pose[bn][frame_start]>>

\* the conversion to the space of the target armature of
\* target_rest_world(b) * inverse(source_rest_local(b)) * source_pose_world(b, f)
C7_Expected(bn, f) ==
    LET Wt == target_arm.matrix_world
        Ws == source_arm.matrix_world
        target_rest_world == MatMul(Wt, target_arm.matrix_local[bn])
        source_pose_world == MatMul(Ws, source_arm.pose[bn][f])
    IN  MatMul(Inverted(Wt),
               MatMul(MatMul(target_rest_world, Inverted(source_arm.matrix_local[bn])),
                      source_pose_world))

\* C7: when the retargeting has ended, every bone common to the source and
\* the target has, at every frame from frame_start to frame_end inclusive,
\* exactly one sample, and that sample is the conversion to the space of the
\* target armature of
\* target_rest_world * inverse(source_rest_local) * source_pose_world.
C7_OneSamplePerBoneAndFrame ==
    pcR = "done" =>
        \A bn \in source_arm.bones \cap target_arm.bones :
            \A f \in frame_start..frame_end :
                keyframes[bn][f] = <<C7_Expected(bn, f)>>

\* a retargeting of more than one frame that ended, with a common bone whose
\* source pose moves and armatures that are not at the origin
C7_Witness ==
    /\ pcR = "done"
    /\ frame_end > frame_start
    /\ source_arm.matrix_world # Identity
    /\ target_arm.matrix_world # Identity
    /\ \E bn \in source_arm.bones \cap target_arm.bones :
          /\ source_arm.pose[bn][frame_start] # source_arm.pose[bn][frame_end]
          /\ Len(keyframes[bn][frame_end]) = 1
          /\ target_arm.pose[bn] = C7_Expected(bn, frame_end)

\* C8: the bones of the target whose name the source does not have get no
\* sample at any frame and their pose is never assigned, and the bones that
\* only the source has get no sample either.
C8_OtherBonesUntouched ==
    [][\A bn \in BoneNames :
          (bn \notin source_arm.bones \/ bn \notin target_arm.bones) =>
              /\ \A f \in Frames : keyframes[bn][f] = <<>> /\ keyframes'[bn][f] = <<>>
              /\ target_arm'.pose[bn] = target_arm.pose[bn]]_vars

\* a retargeting that ended, wrote samples, and left a bone of the target that
\* the source does not have, besides a bone only the source has
C8_Witness ==
    /\ pcR = "done"
    /\ target_arm.bones \ source_arm.bones # {}
    /\ \E bn \in common_bones : keyframes[bn][frame_start] # <<>>
    /\ \A bn \in target_arm.bones \ source_arm.bones :
          target_arm.pose[bn] = target_arm.matrix_local[bn]

(***************************************************************************)
(* Further claims about the track combining, checked under SpecTracks.     *)
(***************************************************************************)
\* "<title-cased folder> - <title-cased file name>", with "None" for the
\* reserved folder
C11_Name(folder, file) ==
    (IF folder = <<"a", "n", "i", "m", "a", "t", "i", "o", "n", "s">>
     THEN <<"N", "o", "n", "e">>
     ELSE Title(folder))
    \o <<" ", "-", " ">> \o Title(file)

\* C11: the name of the track of a clip is "<title-cased parent folder> -
\* <title-cased file name>", with the literal "None" in place of the reserved
\* folder 'animations'; the folder part is title-cased as the file part is.
C11_TrackNameFromProvenance ==
    (nClips > 0 /\ result = "ok") =>
        tracks[Len(tracks)].name = C11_Name(clip.folder, clip.file)

\* the characters of the source paths, in the order of their code points
C12_CharOrder ==
    <<"/", "R", "W", "_", "a", "i", "m", "n", "o", "r", "s", "t", "w">>

C12_Rank(c) == CHOOSE i \in 1..Len(C12_CharOrder) : C12_CharOrder[i] = c

RECURSIVE C12_LessEq(_, _)
\* s sorts before t, or is t
C12_LessEq(s, t) ==
    IF s = <<>> THEN TRUE
    ELSE IF t = <<>> THEN FALSE
    ELSE IF Head(s) # Head(t) THEN C12_Rank(Head(s)) < C12_Rank(Head(t))
    ELSE C12_LessEq(Tail(s), Tail(t))

\* the source file of a clip, below the directory of the animations
C12_SourcePath(c) == c.folder \o <<"/">> \o c.file

\* C12: an accepted clip is appended at the end of the track list, and the
\* clips are processed in the sorted order of their source files, whatever
\* the order in which the files were discovered: of two clips that become
\* tracks one after the other, the first does not sort after the second.
C12_TracksInSourceOrder ==
    [][(nClips' = nClips + 1 /\ result' = "ok") =>
          /\ tracks' = Append(tracks, tracks'[Len(tracks')])
          /\ (nClips > 0 /\ result = "ok") =>
                C12_LessEq(C12_SourcePath(clip), C12_SourcePath(clip'))]_vars

\* the strip the scripts make of a clip named n whose action has the frame
\* range fr (in half frames)
C23_StripOf(n, fr) == SetStrip(NewStrip(n, n), fr)

\* C23: every accepted clip gives exactly one new track with exactly one
\* strip, which starts at 0 on the shared timeline, has the frame range of
\* the action of the clip and the extrapolation hold-nothing; a clip with the
\* range (1, 10) from folder "Walks", file "walk_cycle" gives the track
\* "Walks - Walk_Cycle" with the range (1, 10).
C23_OneTrackOneStrip ==
    [][(nClips' = nClips + 1 /\ result' = "ok") =>
          /\ Len(tracks') = Len(tracks) + 1
          /\ SubSeq(tracks', 1, Len(tracks)) = tracks
          /\ LET t == tracks'[Len(tracks')]
             IN  /\ Len(t.strips) = 1
                 /\ t.strips[1].start = 0
                 /\ 2 * t.strips[1].action_frame_start = clip'.frame_range[1]
                 /\ 2 * t.strips[1].action_frame_end = clip'.frame_range[2]
                 /\ t.strips[1].extrapolation = "NOTHING"
          /\ AnimName(<<"W", "a", "l", "k", "s">>,
                      <<"w", "a", "l", "k", "_", "c", "y", "c", "l", "e">>)
               = <<"W", "a", "l", "k", "s", " ", "-", " ",
                   "W", "a", "l", "k", "_", "C", "y", "c", "l", "e">>
          /\ C23_StripOf(<<"w">>, <<2, 20>>).action_frame_start = 1
          /\ C23_StripOf(<<"w">>, <<2, 20>>).action_frame_end = 10]_vars

(***************************************************************************)
(* Claims about the batch drivers, checked under SpecBatch.                *)
(***************************************************************************)
\* C13: a fatal error raised while one unit is processed is caught, every
\* later unit of the sorted list is still processed, and a final summary
\* that lists the unit is emitted: a driver in which a unit raised ends past
\* the last unit, with a summary that names that unit.
C13_FailureDoesNotStopTheBatch ==
    (errB # "none" /\ pcB \in {"failed", "done"}) =>
        /\ pcB = "done"
        /\ idx > Len(units)
        /\ summary # NoSummary

\* C14: when the import of a unit starts, and while the unit is processed,
\* the scene holds nothing that an earlier unit made.
C14_NoStateCarriedOver ==
    /\ pcB = "import" => scene = {}
    /\ pcB \in {"import", "process"} => \A d \in scene : d.unit = idx

\* the import of a later unit starts, after an earlier unit was imported,
\* processed and exported
C14_Witness ==
    /\ pcB = "import"
    /\ idx > 1
    /\ exported # <<>>

(***************************************************************************)
(* Claims about the fixing of texture references, checked under SpecFix.   *)
(***************************************************************************)
RECURSIVE C15_FileName(_)
\* the file name of a path
C15_FileName(p) ==
    IF \E i \in 1..Len(p) : p[i] = "/" THEN C15_FileName(Tail(p)) ELSE p

\* the file names the alias table maps
C15_Aliased == { FILE_REPLACEMENTS[i].old_name : i \in 1..Len(FILE_REPLACEMENTS) }

\* the replacement the alias table gives for a file name it maps
C15_Alias(name) ==
    FILE_REPLACEMENTS[CHOOSE i \in 1..Len(FILE_REPLACEMENTS) :
                            FILE_REPLACEMENTS[i].old_name = name].new_name

\* the image-texture references of the mesh
C15_Refs ==
    { i \in 1..Len(fx_nodes0) : fx_nodes0[i].type = "TEX_IMAGE" /\ fx_nodes0[i].hasImage }

C15_Resolves(i) == C15_FileName(fx_nodes0[i].filepath) \in textures

C15_AliasResolves(i) ==
    /\ C15_FileName(fx_nodes0[i].filepath) \in C15_Aliased
    /\ C15_Alias(C15_FileName(fx_nodes0[i].filepath)) \in textures

\* C15: a reference whose file is in the textures directory is kept;
\* otherwise, if the alias table maps its file name to a replacement that is
\* there, the reference is rewritten to the replacement; otherwise the
\* processing fails and the unit is not exported.
C15_MissingAssetPolicy ==
    /\ pcF = "done" =>
          \A i \in C15_Refs :
              IF C15_Resolves(i)
              THEN C15_FileName(fx_nodes[i].filepath) = C15_FileName(fx_nodes0[i].filepath)
              ELSE /\ C15_AliasResolves(i)
                   /\ C15_FileName(fx_nodes[i].filepath)
                        = C15_Alias(C15_FileName(fx_nodes0[i].filepath))
    /\ (\E i \in C15_Refs : ~C15_Resolves(i) /\ ~C15_AliasResolves(i)) =>
          (pcF # "done" /\ ~fx_exported)

(***************************************************************************)
(* Claims about Step 1 of normalize_and_deduplicate_images (SpecImages).   *)
(***************************************************************************)
\* an image without path and without packed data that has a width and a height
C16_Procedural(img) == img.filepath = <<>> /\ ~img.packed /\ img.hasSize

\* the fatal error the claim gives for an image, "none" when it gives none
C16_Fatal(img) ==
    IF img.type # "IMAGE" THEN "none"
    ELSE IF img.filepath = <<>> /\ ~img.packed /\ ~img.hasSize THEN "RuntimeError"
    ELSE IF img.filepath # <<>> /\ ~img.packed /\ ~img.exists THEN "FileNotFoundError"
    ELSE "none"

\* C16: an image with no path and no packed data but a nonzero width and
\* height only gives a warning and the processing continues; one with no
\* path, no packed data and no size is a fatal error; an unpacked image whose
\* path is not that of an existing file is a fatal missing-texture error.
C16_ImageErrors ==
    [][(flow = "mixamo" /\ pcI = "start") =>
          LET fatal == { i \in 1..Len(imgs) : C16_Fatal(imgs[i]) # "none" }
          IN  /\ fatal = {} => (pcI' = "done" /\ errI' = "none")
              /\ fatal # {} =>
                    /\ pcI' = "failed"
                    /\ errI' = C16_Fatal(imgs[CHOOSE i \in fatal : \A j \in fatal : i <= j])
              /\ \A i \in 1..Len(imgs) :
                    C16_Procedural(imgs[i]) => imgs'[i] = imgs[i]]_vars

\* the function went on to its end past a procedural image
C16_Witness ==
    /\ flow = "mixamo"
    /\ pcI = "done"
    /\ \E i \in 1..Len(imgs) : imgs[i].type = "IMAGE" /\ C16_Procedural(imgs[i])
    /\ \E i \in 1..Len(imgs) : imgs[i].packed

(***************************************************************************)
(* Further retargeting claims, checked under SpecRetarget.                 *)
(***************************************************************************)
\* C17: the retargeting fails with an empty-skeleton error when the source or
\* the target has no bone, so it never runs to its end then; when both have
\* bones but no name in common it does not fail and writes no sample.
C17_EmptySkeletonFails ==
    /\ (source_arm.bones = {} \/ target_arm.bones = {}) => pcR # "done"
    /\ (pcR = "done" /\ source_arm.bones \cap target_arm.bones = {}) =>
          \A bn \in BoneNames : \A f \in Frames : keyframes[bn][f] = <<>>

\* the rotation_quaternion keyed for a bone of the target at a frame: the
\* rotation of its pose relative to its rest
C18_Quaternion(bn, f) ==
    to_quaternion(MatMul(Inverted(target_arm.matrix_local[bn]), keyframes[bn][f][1]))

C18_Dot(q, r) == q[1] * r[1] + q[2] * r[2]

\* C18: the rotation quaternions stored for a bone are sign-consistent: at
\* consecutive frames f, f+1 of the range the dot product of the stored
\* quaternions is not negative.
C18_QuaternionSignContinuity ==
    pcR = "done" =>
        \A bn \in common_bones : \A f \in frame_start..(frame_end - 1) :
            C18_Dot(C18_Quaternion(bn, f), C18_Quaternion(bn, f + 1)) >= 0

(***************************************************************************)
(* Claims about the bone comparison, checked under SpecCompare.            *)
(***************************************************************************)
\* the difference of the rest orientations of a common bone, per axis, in
\* hundredths of a degree
C19_Difference(n) ==
    [ax \in {"X", "Y", "Z"} |->
        IF bones_fbx_a[n].axis = ax
        THEN bones_fbx_a[n].angle - bones_fbx_b[n].angle
        ELSE 0]

C19_Exceeds(n) ==
    \E ax \in {"X", "Y", "Z"} :
        C19_Difference(n)[ax] > 1 \/ C19_Difference(n)[ax] < -1

\* C19: a bone of both skeletons is reported if and only if a component of
\* the rotation difference exceeds the threshold of 0.01 degrees in absolute
\* value; a bone whose largest component is exactly the threshold is not
\* reported, and a difference of 5 degrees about X is reported as (5, 0, 0).
C19_ReportedIffExceeds ==
    pcC = "done" =>
        \A n \in (DOMAIN bones_fbx_a) \cap (DOMAIN bones_fbx_b) :
            /\ (\E r \in printed : r.name = n) <=> C19_Exceeds(n)
            /\ (bones_fbx_a[n].axis = "X" /\ C19_Difference(n)["X"] = 500) =>
                  [name |-> n, delta |-> <<500, 0, 0>>] \in printed

(***************************************************************************)
(* Claims about the T-pose test, checked under SpecTPose.                  *)
(***************************************************************************)
\* the angle between a bone and the vertical axis, in degrees
C20_AngleFromVertical(bone) ==
    IF bone.theta > 90 THEN 180 - bone.theta ELSE bone.theta

\* some upper arm of some armature of the collection is off the horizontal
\* by strictly more than the threshold
C20_SomeArmOff ==
    \E i \in 1..Len(char_collection) :
        /\ char_collection[i].type = "ARMATURE"
        /\ \E k \in {"mixamorig:LeftArm", "mixamorig:RightArm"} :
             LET bone == char_collection[i].bones[k]
                 d    == 90 - C20_AngleFromVertical(bone)
             IN  /\ bone.length > 0
                 /\ (d > deviation_threshold \/ -d > deviation_threshold)

C29_NothingToCheck ==
    \A i \in 1..Len(char_collection) :
        char_collection[i].type = "ARMATURE" =>
            \A k \in {"mixamorig:LeftArm", "mixamorig:RightArm"} :
                char_collection[i].bones[k].length <= 0

\* C29: is_in_t_pose returns True for every collection in which no armature
\* has a checked bone of nonzero length (armatures without the two upper
\* arms, bones of zero length, collections without an armature), so that
\* main does not skip the character.
C29_NothingToCheckPasses ==
    (pcT = "done" /\ C29_NothingToCheck) =>
        /\ tp_result = "True"
        /\ ~any_deviation
        /\ ~not_exporting(tp_result = "True")

\* a call that returned for a collection with a mesh and an armature that
\* lacks one upper arm and has the other with zero length
C29_Witness ==
    /\ pcT = "done"
    /\ tp_result = "True"
    /\ \E i, j \in 1..Len(char_collection) :
          /\ char_collection[i].type = "MESH"
          /\ char_collection[j].type = "ARMATURE"
          /\ char_collection[j].bones["mixamorig:LeftArm"].length = -1
          /\ char_collection[j].bones["mixamorig:RightArm"].length = 0

\* C21: the comparison of the bone names is a pure set computation. The
\* common set is the same with the skeletons exchanged, the names only in A
\* are the names only in the second skeleton of the exchanged comparison (and
\* likewise for B), the three sets are pairwise disjoint and cover the union
\* of the two name sets, and equal name sets give two empty difference sets,
\* for which bones_match returns True.
C21_CompareIsSymmetric ==
    pcC = "done" =>
        LET common == CommonBonesOf(bones_fbx_a, bones_fbx_b)
            only_a == missing_in_fbx_b
            only_b == missing_in_fbx_a
            names  == (DOMAIN bones_fbx_a) \cup (DOMAIN bones_fbx_b)
        IN  /\ common = CommonBonesOf(bones_fbx_b, bones_fbx_a)
            /\ only_a = MissingInFbxA(bones_fbx_b, bones_fbx_a)
            /\ only_b = MissingInFbxB(bones_fbx_b, bones_fbx_a)
            /\ only_a \cap only_b = {}
            /\ only_a \cap common = {}
            /\ only_b \cap common = {}
            /\ only_a \cup only_b \cup common = names
            /\ (DOMAIN bones_fbx_a = DOMAIN bones_fbx_b) =>
                  /\ only_a = {}
                  /\ only_b = {}
                  /\ bones_match(DOMAIN bones_fbx_a, DOMAIN bones_fbx_b)
                  /\ bones_match_combine(DOMAIN bones_fbx_a, DOMAIN bones_fbx_b) = "true"

\* a finished comparison of two skeletons that share a bone and each have a
\* bone the other lacks
C21_Witness ==
    /\ pcC = "done"
    /\ missing_in_fbx_a # {}
    /\ missing_in_fbx_b # {}
    /\ CommonBonesOf(bones_fbx_a, bones_fbx_b) # {}

(***************************************************************************)
(* Claims about the root object of an imported unit, checked under         *)
(* SpecRoot.                                                               *)
(***************************************************************************)
C22_Roots == { o \in DOMAIN imported_objects : imported_objects[o] = 0 }

\* C22: an imported unit is accepted only if it has exactly one object
\* without a parent. get_root_object and get_character both end with an
\* error when the import has no root (an import that made no object
\* included) and when it has more than one.
C22_ExactlyOneRoot ==
    pcO = "done" =>
        /\ (root_result = "returned") => Cardinality(C22_Roots) = 1
        /\ (Cardinality(C22_Roots) # 1) => root_result = "raise"

\* the step was made for the unit before place i of the log
C24_Before(i, u, name) ==
    { j \in 1..(i - 1) : steps[j] = [unit |-> u, step |-> name] }

\* C24: in every processed unit the image deduplication is over before the
\* material deduplication starts, and both are over before the unit is
\* exported; the material deduplication never runs on a unit whose image
\* deduplication has not run.
C24_ImagesThenMaterialsThenExport ==
    driver = "synty" =>
        \A i \in 1..Len(steps) :
            /\ steps[i].step = "deduplicate_materials" =>
                  C24_Before(i, steps[i].unit, "deduplicate_images") # {}
            /\ steps[i].step = "export" =>
                  \E k \in C24_Before(i, steps[i].unit, "deduplicate_materials") :
                      C24_Before(k, steps[i].unit, "deduplicate_images") # {}

(***************************************************************************)
(* Further claims about the image deduplication, checked under SpecImages. *)
(***************************************************************************)
\* two images of the list were loaded from the same file
C25_SameSource(list, i, j) ==
    /\ i # j
    /\ list[i].filepath # <<>>
    /\ list[j].filepath # <<>>
    /\ abspath(list[i].filepath) = abspath(list[j].filepath)

\* C25: normalize_and_deduplicate_images deduplicates the images that
\* reference the same source file: of the image datablocks that were loaded
\* from one file (or are packed copies of it) a single one is left when the
\* function returns, and every material node that had one of them has it.
C25_SameSourceImagesMerged ==
    [][(flow = "mixamo" /\ pcI = "start" /\ pcI' = "done") =>
          \A i, j \in 1..Len(imgs) :
              C25_SameSource(imgs, i, j) =>
                  /\ ~(HasImg(imgs', imgs[i].id) /\ HasImg(imgs', imgs[j].id))
                  /\ \A m \in 1..Len(imats) :
                       \A n \in 1..Len(imats[m].nodes) :
                           imats[m].nodes[n] \in {imgs[i].id, imgs[j].id} =>
                               HasImg(imgs', imats'[m].nodes[n])]_vars

\* the base name starts with "sm_", whatever the case of its letters
C26_IsMeshName(name) ==
    /\ Len(name) >= 3
    /\ name[1] \in {"s", "S"}
    /\ name[2] \in {"m", "M"}
    /\ name[3] = "_"

\* the file is one that process_files does not export
C26_NotExported(name) ==
    \/ /\ ~C26_IsMeshName(name)
       /\ name # <<"C", "h", "a", "r", "a", "c", "t", "e", "r", "s", ".", "f", "b", "x">>
    \/ name \in SM_FILES_TO_SKIP

\* C26: when process_files completes, the list of skipped files printed at
\* the end holds, in the order of processing, exactly the input files that
\* were not exported: those whose base name does not start with "sm_"
\* (whatever the case) and is not "Characters.fbx", and those whose base name
\* is in SM_FILES_TO_SKIP; every other input file was processed and exported
\* exactly once.
C26_SkippedFilesListed ==
    (driver = "synty" /\ pcB = "done") =>
        /\ summary = SelectSeq([i \in 1..Len(units) |-> i],
                               LAMBDA i : C26_NotExported(units[i].name))
        /\ \A i \in 1..Len(units) :
              Cardinality({ k \in 1..Len(exported) : exported[k] = i })
                 = IF C26_NotExported(units[i].name) THEN 0 ELSE 1

\* a completed run in which a file was skipped for its name, a file of
\* SM_FILES_TO_SKIP was skipped and a file with an upper-case "SM_" name was
\* exported
C26_Witness ==
    /\ driver = "synty"
    /\ pcB = "done"
    /\ \E i, j, k \in 1..Len(units) :
          /\ units[i].name = <<"a", ".", "f", "b", "x">>
          /\ units[j].name \in SM_FILES_TO_SKIP
          /\ units[k].name = <<"S", "M", "_", "a", ".", "f", "b", "x">>
          /\ summary = <<j, i>>
          /\ exported = <<k>>

\* the steps made for the unit at place i, in their order
C27_StepsOf(i) ==
    LET mine == SelectSeq(steps, LAMBDA e : e.unit = i)
    IN  [k \in 1..Len(mine) |-> mine[k].step]

\* C27: in the loop over the characters of main a character is exported only
\* if its T-pose test passed, and for an exported character the steps are, in
\* this order, the import of the animations, the import of the character,
\* the T-pose test, the image pass, the combining of the tracks and the
\* export; a character that fails the T-pose test is never exported, and the
\* loop goes on to the next character.
C27_ExportAfterTPoseInOrder ==
    driver = "mixamo" =>
        /\ \A k \in 1..Len(exported) :
              /\ units[exported[k]].tpose
              /\ Tail(C27_StepsOf(exported[k])) =
                    <<"get_animations", "get_character", "is_in_t_pose",
                      "normalize_and_deduplicate_images",
                      "combine_characters_and_animations", "export">>
        /\ \A i \in 1..Len(units) :
              (~units[i].tpose /\ C27_StepsOf(i) # <<>>) =>
                  /\ \A k \in 1..Len(exported) : exported[k] # i
                  /\ \A k \in 1..Len(C27_StepsOf(i)) : C27_StepsOf(i)[k] # "export"
                  /\ (C27_StepsOf(i)[Len(C27_StepsOf(i))] = "is_in_t_pose") => idx > i

\* a completed run in which the first character failed the T-pose test and
\* the second was exported
C27_Witness ==
    /\ driver = "mixamo"
    /\ pcB = "done"
    /\ Len(units) >= 2
    /\ ~units[1].tpose
    /\ units[2].tpose
    /\ exported = <<2>>

C30_Occurs(str, sub) ==
    \E i \in 1..Len(str) :
        /\ i + Len(sub) - 1 <= Len(str)
        /\ \A k \in 1..Len(sub) : str[i + k - 1] = sub[k]

\* C30: the alias rewriting of a texture path is order-independent and
\* idempotent for the configured table. No replacement value contains a key
\* of the table, the rewritten path is the same for every order in which the
\* table is iterated, rewriting a rewritten path changes nothing, and a path
\* that contains no key of the table passes through unchanged.
C30_RewritingIsStable ==
    /\ \A i, j \in TablePlaces :
          ~C30_Occurs(ConfiguredReplacements[i].new_name,
                      ConfiguredReplacements[j].old_name)
    /\ pcA \in {"once", "twice"} =>
          /\ \A o \in TableOrders : ApplyReplacements(al_path, Reordered(o)) = al_out
          /\ (\A j \in TablePlaces :
                 ~C30_Occurs(al_path, ConfiguredReplacements[j].old_name))
                => al_out = al_path
    /\ pcA = "twice" => al_out = al_prev

\* a path with two keys of the table that was rewritten twice, with the
\* table iterated in another order than that of the dictionary
C30_Witness ==
    /\ pcA = "twice"
    /\ al_order # [k \in TablePlaces |-> k]
    /\ al_out # al_path
    /\ Cardinality({ j \in TablePlaces :
                       C30_Occurs(al_path, ConfiguredReplacements[j].old_name) }) = 2

====
